---------------------------- MODULE Spec2Model ----------------------------
(***************************************************************************)
(* State-machine model of the e-commerce backend: the four extended store  *)
(* routes (collections / categories, list and by-handle), the PayPal       *)
(* payment provider, the admin collection-metadata widget and the seed     *)
(* script.  Each part has its own specification (SpecStore, SpecPayPal,    *)
(* SpecWidget, SpecSeed); a specification leaves the variables of the      *)
(* other parts at their initial value.                                     *)
(***************************************************************************)
EXTENDS Integers, Sequences, FiniteSets, Bags, TLC

VARIABLES
    collections,   \* product module: the stored collections (set of rows)
    categories,    \* product module: the stored categories (set of rows)
    req,           \* the store request being answered
    res,           \* responses sent for req, in order
    svcCalls       \* product-service methods invoked while answering req

VARIABLES
    ppOrders,      \* PayPal: the orders it holds, by id 1..Len
    lastToken,     \* PayPal: the access token it issued last
    op,            \* the provider operation in progress
    http           \* HTTP requests the operation in progress has sent, in order

VARIABLES
    serverMetadata, \* admin API: the metadata stored for the edited collection
    dataMetadata,   \* widget: data.metadata, the metadata of its data prop
    saved,          \* widget: savedDescription, savedImageUrl
    edit,           \* widget: editDescription, editImageUrl
    ui,             \* widget: isDrawerOpen, isSaving, isUploading
    inflight        \* widget: requests sent and not yet answered, oldest first

VARIABLES
    seedWorld,     \* seed: what the database held before the script ran
    seedPc,        \* seed: the step the script is at
    seedStatus,    \* seed: "ready", "awaiting", "failed" or "finished"
    seedEnv,       \* seed: the script's local variables that are bound
    seedLog,       \* seed: the steps that completed, in order
    seedLevels     \* seed: the inventory levels built by the loop

storeVars == <<collections, categories, req, res, svcCalls>>

paypalVars == <<ppOrders, lastToken, op, http>>

widgetVars == <<serverMetadata, dataMetadata, saved, edit, ui, inflight>>

seedVars == <<seedWorld, seedPc, seedStatus, seedEnv, seedLog, seedLevels>>

vars == <<storeVars, paypalVars, widgetVars, seedVars>>

\* what a step of one part leaves alone
notStore == <<paypalVars, widgetVars, seedVars>>

notPayPal == <<storeVars, widgetVars, seedVars>>

notWidget == <<storeVars, paypalVars, seedVars>>

notSeed == <<storeVars, paypalVars, widgetVars>>

(***************************************************************************)
(* JavaScript values.  null and undefined are modelled by two strings that *)
(* no data value equals; a text is a string.                               *)
(***************************************************************************)
JsNull == "<null>"
JsUndefined == "<undefined>"

\* x is falsy for the values metadata and columns hold here: undefined,
\* null and the empty string
Falsy(x) == x \in {JsUndefined, JsNull, ""}

\* x || null
OrNull(x) == IF Falsy(x) THEN JsNull ELSE x

(***************************************************************************)
(* Query-string numbers.  A query parameter is absent or a text; a text is *)
(* a sequence of characters over QueryChars (digits, a sign and a letter;  *)
(* no white space, "+" or "x", so radix detection and trimming do not      *)
(* arise).                                                                 *)
(***************************************************************************)
MaxQueryLen == 2

QueryChars == {"0", "2", "-", "a"}

Digits == {"0", "2"}

DigitValue(c) == IF c = "2" THEN 2 ELSE 0

RECURSIVE SeqsUpTo(_)
SeqsUpTo(n) ==
    IF n = 0 THEN {<<>>}
    ELSE LET shorter == SeqsUpTo(n - 1)
         IN  shorter \cup {Append(s, c) : s \in {t \in shorter : Len(t) = n - 1},
                                          c \in QueryChars}

QueryTexts == SeqsUpTo(MaxQueryLen)

QueryParams ==
    {[given |-> FALSE, text |-> <<>>]} \cup {[given |-> TRUE, text |-> t] : t \in QueryTexts}

NaN == [nan |-> TRUE, n |-> 0]

Num(n) == [nan |-> FALSE, n |-> n]

\* the value of the longest prefix of digits of s, read in base 10
RECURSIVE DigitsValue(_, _)
DigitsValue(s, acc) ==
    IF s = <<>> \/ Head(s) \notin Digits THEN acc
    ELSE DigitsValue(Tail(s), 10 * acc + DigitValue(Head(s)))

\* parseInt(q): an optional sign, then the longest prefix of digits; NaN when
\* the parameter is absent or no digit follows the sign
ParseInt(q) ==
    IF ~q.given THEN NaN
    ELSE LET neg  == q.text # <<>> /\ Head(q.text) = "-"
             body == IF neg THEN Tail(q.text) ELSE q.text
         IN  IF body = <<>> \/ Head(body) \notin Digits THEN NaN
             ELSE Num((IF neg THEN -1 ELSE 1) * DigitsValue(body, 0))

\* p || d for a number p: NaN and 0 are falsy
OrDefault(p, d) == IF p.nan \/ p.n = 0 THEN d ELSE p.n

DefaultCollectionLimit == 20
DefaultCategoryLimit == 100
DefaultOffset == 0

(***************************************************************************)
(* Entities of the product module.  metadata is a function from the keys   *)
(* it holds to their values; has_metadata is FALSE when the column is      *)
(* null.                                                                   *)
(***************************************************************************)
NoMeta == [has |-> FALSE, kv |-> <<>>]

Meta(kv) == [has |-> TRUE, kv |-> kv]

EmptyKv == [k \in {} |-> JsNull]

\* metadata?.key
MetaGet(m, key) ==
    IF ~m.has THEN JsUndefined
    ELSE IF key \in DOMAIN m.kv THEN m.kv[key] ELSE JsUndefined

Collection(id, title, handle, metadata) ==
    [id |-> id, title |-> title, handle |-> handle, metadata |-> metadata,
     created_at |-> "t0", updated_at |-> "t1"]

CollectionRows ==
    { Collection("pcol_1", "Summer", "summer",
                 Meta([description |-> "Sun", image_url |-> "img1", seo |-> "kw"])),
      Collection("pcol_2", "Winter", "winter", NoMeta),
      Collection("pcol_3", "Sale", "sale",
                 Meta([description |-> "", image_url |-> JsNull])),
      Collection("pcol_4", "New", "new", Meta([image_url |-> "img4"])) }

Category(id, handle, description, metadata, parent, rank, active, internal) ==
    [id |-> id, name |-> handle, handle |-> handle, description |-> description,
     metadata |-> metadata, parent_category_id |-> parent, rank |-> rank,
     is_active |-> active, is_internal |-> internal,
     created_at |-> "t0", updated_at |-> "t1"]

CategoryRows ==
    { Category("pcat_1", "shirts", "Shirts",
               Meta([image_url |-> "cimg1", description |-> "meta text"]),
               JsNull, 0, TRUE, FALSE),
      Category("pcat_2", "tees", JsNull, NoMeta, "pcat_1", 0, TRUE, FALSE),
      Category("pcat_3", "pants", "", Meta([image_url |-> ""]), JsNull, 1, TRUE, FALSE),
      Category("pcat_4", "hidden", "Hidden", Meta([image_url |-> "cimg4"]),
               "pcat_1", 1, FALSE, FALSE),
      Category("pcat_5", "staff", "Staff", Meta(EmptyKv), JsNull, 2, TRUE, TRUE) }

\* the databases a run starts from: every row, some rows, none
Databases ==
    { [collections |-> CollectionRows, categories |-> CategoryRows],
      [collections |-> {c \in CollectionRows : c.handle \in {"winter", "sale"}},
       categories  |-> {c \in CategoryRows : c.handle \in {"tees", "hidden", "pants"}}],
      [collections |-> {}, categories |-> {}] }

Handles == {c.handle : c \in CollectionRows} \cup {c.handle : c \in CategoryRows} \cup {"nope"}

IncludeFlags == {JsUndefined, "true"}

ParentParams == {JsUndefined, "", "null", "pcat_1", "pcat_9"}


(***************************************************************************)
(* The product module's read operations, as the routes call them.  A call  *)
(* returns the rows that equal the filter on every field the filter names, *)
(* in the requested order (any order among equal ranks, any order when     *)
(* none is requested), cut to skip/take; the count is that of the matching *)
(* rows before the cut.  The database rejects a negative skip or take.     *)
(***************************************************************************)
Matches(row, filters) == \A f \in DOMAIN filters : row[f] = filters[f]

Min(a, b) == IF a < b THEN a ELSE b

\* the sequences holding every row of S once
RECURSIVE AnyOrder(_)
AnyOrder(S) ==
    IF S = {} THEN {<<>>}
    ELSE UNION {{<<x>> \o s : s \in AnyOrder(S \ {x})} : x \in S}

\* the sequences holding every row of S once, by rank ascending
RECURSIVE RankAscending(_)
RankAscending(S) ==
    IF S = {} THEN {<<>>}
    ELSE LET lowest == {x \in S : \A y \in S : x.rank <= y.rank}
         IN  UNION {{<<x>> \o s : s \in RankAscending(S \ {x})} : x \in lowest}

\* rows skip+1 .. skip+take of ordered
Page(ordered, skip, take) == SubSeq(ordered, skip + 1, Min(skip + take, Len(ordered)))

ServiceThrows(call, fault) ==
    \/ fault
    \/ "skip" \in DOMAIN call /\ call.skip < 0
    \/ "take" \in DOMAIN call /\ call.take < 0

\* the orders in which the rows matching call.filters can come back
Orderings(rows, call) ==
    LET matching == {r \in rows : Matches(r, call.filters)}
    IN  IF "order" \in DOMAIN call THEN RankAscending(matching) ELSE AnyOrder(matching)

CountMatching(rows, call) == Cardinality({r \in rows : Matches(r, call.filters)})

IsReadMethod(m) ==
    m \in {"listProductCollections", "listAndCountProductCollections",
           "listAndCountProductCategories"}

(***************************************************************************)
(* Projections of the rows into the response.                              *)
(***************************************************************************)
\* a projection that takes the description for a column of the collection
ProjectCollectionColumns(c) ==
    [id |-> c.id, title |-> c.title, handle |-> c.handle,
     created_at |-> c.created_at, updated_at |-> c.updated_at,
     description |-> JsNull,
     image_url |-> OrNull(MetaGet(c.metadata, "image_url"))]

ProjectCollection(c) ==
    [id |-> c.id, title |-> c.title, handle |-> c.handle,
     created_at |-> c.created_at, updated_at |-> c.updated_at,
     description |-> OrNull(MetaGet(c.metadata, "description")),
     image_url |-> OrNull(MetaGet(c.metadata, "image_url"))]

ProjectChild(child) ==
    [id |-> child.id, name |-> child.name, handle |-> child.handle,
     description |-> OrNull(child.description), rank |-> child.rank,
     image_url |-> OrNull(MetaGet(child.metadata, "image_url"))]

ProjectParent(parent) ==
    [id |-> parent.id, name |-> parent.name, handle |-> parent.handle,
     description |-> OrNull(parent.description),
     image_url |-> OrNull(MetaGet(parent.metadata, "image_url"))]

\* the category_children relation of c, when loaded
ChildrenOf(rows, c) == {k \in rows : k.parent_category_id = c.id}

\* children: includeChildren && category.category_children ? ... : undefined
ProjectChildren(rows, c, includeChildren) ==
    IF includeChildren
      THEN [defined |-> TRUE, items |-> {ProjectChild(k) : k \in ChildrenOf(rows, c)}]
      ELSE [defined |-> FALSE, items |-> {}]

ProjectCategory(rows, c, includeChildren) ==
    [id |-> c.id, name |-> c.name, handle |-> c.handle,
     description |-> OrNull(c.description),
     parent_category_id |-> OrNull(c.parent_category_id),
     rank |-> c.rank, created_at |-> c.created_at, updated_at |-> c.updated_at,
     image_url |-> OrNull(MetaGet(c.metadata, "image_url")),
     children |-> ProjectChildren(rows, c, includeChildren)]

\* parent: includeParent && category.parent_category ? ... : undefined
ProjectParentOf(rows, c, includeParent) ==
    LET parents == {p \in rows : p.id = c.parent_category_id}
    IN  IF includeParent /\ parents # {}
          THEN [defined |-> TRUE, items |-> {ProjectParent(p) : p \in parents}]
          ELSE [defined |-> FALSE, items |-> {}]

MapSeq(s, Op(_)) == [i \in 1..Len(s) |-> Op(s[i])]

(***************************************************************************)
(* Responses.                                                              *)
(***************************************************************************)
Response(status, body) == [status |-> status, body |-> body]

NotFound(message) == Response(404, [message |-> message])

ServerError(message) == Response(500, [message |-> message, error |-> "service error"])

BlankReq ==
    [route |-> "none", handle |-> "", limit |-> [given |-> FALSE, text |-> <<>>],
     offset |-> [given |-> FALSE, text |-> <<>>], include_children |-> JsUndefined,
     include_parent |-> JsUndefined, parent_category_id |-> JsUndefined, fault |-> FALSE]

(***************************************************************************)
(* GET /store/collections-extended/:handle                                 *)
(***************************************************************************)
\* a handler that saves the collection it looked up
CollectionByHandleUpdate(handle) ==
    [method |-> "updateProductCollections", filters |-> [handle |-> handle]]

CollectionByHandleCall(handle) ==
    [method |-> "listProductCollections", filters |-> [handle |-> handle]]

\* res.json without res.status(404) where nothing was found
CollectionByHandleAlwaysOk(found) ==
    IF Len(found) = 0
      THEN <<Response(200, [message |-> "Collection not found"])>>
      ELSE <<Response(200, [collection |-> ProjectCollection(found[1])])>>

CollectionByHandleResponse(found) ==
    IF Len(found) = 0
      THEN <<NotFound("Collection not found")>>
      ELSE <<Response(200, [collection |-> ProjectCollection(found[1])])>>

GetCollectionByHandle(handle, fault) ==
    LET call == CollectionByHandleCall(handle)
    IN  /\ req = BlankReq
        /\ req' = [BlankReq EXCEPT !.route = "collection", !.handle = handle,
                                   !.fault = fault]
        /\ svcCalls' = <<call>>
        /\ IF ServiceThrows(call, fault)
             THEN res' = <<ServerError("Error fetching collection")>>
             ELSE \E found \in Orderings(collections, call) :
                    res' = CollectionByHandleResponse(found)
        /\ UNCHANGED <<collections, categories, notStore>>

(***************************************************************************)
(* GET /store/collections-extended                                         *)
(***************************************************************************)
CollectionListLimit(q) == OrDefault(ParseInt(q), DefaultCollectionLimit)

ListOffset(q) == OrDefault(ParseInt(q), DefaultOffset)

CollectionListCall(limit, offset) ==
    [method |-> "listAndCountProductCollections", filters |-> EmptyKv,
     skip |-> offset, take |-> limit]

CollectionListResponse(page, count, limit, offset) ==
    <<Response(200, [collections |-> MapSeq(page, ProjectCollection),
                     count |-> count, offset |-> offset, limit |-> limit])>>

GetCollections(limitQ, offsetQ, fault) ==
    LET limit  == CollectionListLimit(limitQ)
        offset == ListOffset(offsetQ)
        call   == CollectionListCall(limit, offset)
    IN  /\ req = BlankReq
        /\ req' = [BlankReq EXCEPT !.route = "collections", !.limit = limitQ,
                                   !.offset = offsetQ, !.fault = fault]
        /\ svcCalls' = <<call>>
        /\ IF ServiceThrows(call, fault)
             THEN res' = <<ServerError("Error fetching collections")>>
             ELSE \E ordered \in Orderings(collections, call) :
                    res' = CollectionListResponse(Page(ordered, call.skip, call.take),
                                                  CountMatching(collections, call),
                                                  limit, offset)
        /\ UNCHANGED <<collections, categories, notStore>>

(***************************************************************************)
(* GET /store/categories-extended                                          *)
(***************************************************************************)
CategoryListLimit(q) == OrDefault(ParseInt(q), DefaultCategoryLimit)

\* filters that take the text "null" for the id of a category
CategoryFiltersLiteral(parentQ) ==
    IF ~Falsy(parentQ)
      THEN [is_active |-> TRUE, is_internal |-> FALSE, parent_category_id |-> parentQ]
      ELSE [is_active |-> TRUE, is_internal |-> FALSE]

\* is_active / is_internal always; parent_category_id when the parameter is
\* "null" (the root categories) or another non-empty text
CategoryFilters(parentQ) ==
    IF parentQ = "null"
      THEN [is_active |-> TRUE, is_internal |-> FALSE, parent_category_id |-> JsNull]
      ELSE IF ~Falsy(parentQ)
        THEN [is_active |-> TRUE, is_internal |-> FALSE, parent_category_id |-> parentQ]
        ELSE [is_active |-> TRUE, is_internal |-> FALSE]

CategoryListCall(limit, offset, parentQ, includeChildren) ==
    [method |-> "listAndCountProductCategories", filters |-> CategoryFilters(parentQ),
     relations |-> IF includeChildren THEN {"category_children"} ELSE {},
     skip |-> offset, take |-> limit, order |-> "rank ASC"]

CategoryListResponse(rows, page, count, limit, offset, includeChildren) ==
    LET Project(c) == ProjectCategory(rows, c, includeChildren)
    IN  <<Response(200, [categories |-> MapSeq(page, Project),
                         count |-> count, offset |-> offset, limit |-> limit])>>

GetCategories(limitQ, offsetQ, includeQ, parentQ, fault) ==
    LET limit  == CategoryListLimit(limitQ)
        offset == ListOffset(offsetQ)
        includeChildren == includeQ = "true"
        call   == CategoryListCall(limit, offset, parentQ, includeChildren)
    IN  /\ req = BlankReq
        /\ req' = [BlankReq EXCEPT !.route = "categories", !.limit = limitQ,
                                   !.offset = offsetQ, !.include_children = includeQ,
                                   !.parent_category_id = parentQ, !.fault = fault]
        /\ svcCalls' = <<call>>
        /\ IF ServiceThrows(call, fault)
             THEN res' = <<ServerError("Error fetching categories")>>
             ELSE \E ordered \in Orderings(categories, call) :
                    res' = CategoryListResponse(categories,
                                                Page(ordered, call.skip, call.take),
                                                CountMatching(categories, call),
                                                limit, offset, includeChildren)
        /\ UNCHANGED <<collections, categories, notStore>>

(***************************************************************************)
(* GET /store/categories-extended/:handle                                  *)
(***************************************************************************)
CategoryByHandleCall(handle, includeChildren, includeParent) ==
    [method |-> "listAndCountProductCategories",
     filters |-> [handle |-> handle, is_active |-> TRUE, is_internal |-> FALSE],
     relations |-> (IF includeChildren THEN {"category_children"} ELSE {})
                     \cup (IF includeParent THEN {"parent_category"} ELSE {}),
     take |-> 1]

CategoryByHandleResponse(rows, found, includeChildren, includeParent) ==
    IF Len(found) = 0
      THEN <<NotFound("Category not found")>>
      ELSE <<Response(200,
               [category |-> [core   |-> ProjectCategory(rows, found[1], includeChildren),
                              parent |-> ProjectParentOf(rows, found[1], includeParent)]])>>

GetCategoryByHandle(handle, includeQ, parentIncludeQ, fault) ==
    LET includeChildren == includeQ = "true"
        includeParent   == parentIncludeQ = "true"
        call == CategoryByHandleCall(handle, includeChildren, includeParent)
    IN  /\ req = BlankReq
        /\ req' = [BlankReq EXCEPT !.route = "category", !.handle = handle,
                                   !.include_children = includeQ,
                                   !.include_parent = parentIncludeQ, !.fault = fault]
        /\ svcCalls' = <<call>>
        /\ IF ServiceThrows(call, fault)
             THEN res' = <<ServerError("Error fetching category")>>
             ELSE \E ordered \in Orderings(categories, call) :
                    res' = CategoryByHandleResponse(categories,
                                                    Page(ordered, 0, call.take),
                                                    includeChildren, includeParent)
        /\ UNCHANGED <<collections, categories, notStore>>

(***************************************************************************)
(* The store routes' specification.                                        *)
(***************************************************************************)
StoreIdle ==
    /\ req = BlankReq
    /\ res = <<>>
    /\ svcCalls = <<>>

StoreStart ==
    /\ \E db \in Databases : collections = db.collections /\ categories = db.categories
    /\ StoreIdle

\* the response has gone out: the server is ready for the next request
StoreRespond ==
    /\ req # BlankReq
    /\ req' = BlankReq
    /\ res' = <<>>
    /\ svcCalls' = <<>>
    /\ UNCHANGED <<collections, categories, notStore>>

\* a request arrives at an idle server and is answered by its route's handler
CollectionByHandleRoute ==
    /\ req = BlankReq
    /\ \E h \in Handles, fault \in BOOLEAN : GetCollectionByHandle(h, fault)

CollectionListRoute ==
    /\ req = BlankReq
    /\ \E l \in QueryParams, o \in QueryParams, fault \in BOOLEAN :
          GetCollections(l, o, fault)

CategoryListRoute ==
    /\ req = BlankReq
    /\ \E l \in QueryParams, o \in QueryParams, i \in IncludeFlags, p \in ParentParams,
          fault \in BOOLEAN : GetCategories(l, o, i, p, fault)

CategoryByHandleRoute ==
    /\ req = BlankReq
    /\ \E h \in Handles, i \in IncludeFlags, p \in IncludeFlags, fault \in BOOLEAN :
          GetCategoryByHandle(h, i, p, fault)

StoreNext ==
    \/ CollectionByHandleRoute
    \/ CollectionListRoute
    \/ CategoryListRoute
    \/ CategoryByHandleRoute
    \/ StoreRespond

(***************************************************************************)
(* The PayPal payment provider.  A provider operation runs in steps: the   *)
(* call (input checks, the request it is about to make), the token request *)
(* of getAccessToken, the API request of paypalRequest, the return.  The   *)
(* provider object holds only its options, so nothing but PayPal's own     *)
(* state outlives an operation.                                            *)
(***************************************************************************)
MaxOrders == 2

\* the statuses the provider names, and one it does not
PayPalStatuses ==
    {"CREATED", "SAVED", "APPROVED", "VOIDED", "COMPLETED", "PAYER_ACTION_REQUIRED",
     "PENDING_APPROVAL"}

\* PayPal issues access tokens tok 1, tok 2, tok 1, ...: a token request never
\* returns the token of the request before it
NumTokens == 2

NoToken == 0

NextToken(t) == (t % NumTokens) + 1

\* order and capture ids
IdOf(i) == "ORDER-" \o ToString(i)

CaptureIdOf(i) == "CAPTURE-" \o ToString(i)

OrderIds == {IdOf(i) : i \in 1..Len(ppOrders)}

OrderIndex(id) == CHOOSE i \in 1..Len(ppOrders) : IdOf(i) = id

CaptureIds == {CaptureIdOf(i) : i \in {j \in 1..Len(ppOrders) : ppOrders[j].status = "COMPLETED"}}

CaptureIndex(id) == CHOOSE i \in 1..Len(ppOrders) : CaptureIdOf(i) = id

(***************************************************************************)
(* Amounts.  A JavaScript number is held in thousandths (12506 is 12.506); *)
(* a decimal text is its whole part and the sequence of its fraction       *)
(* digits.  The amounts used are no exact halves of a hundredth, where     *)
(* toFixed depends on the binary representation.                           *)
(***************************************************************************)
Undefined == [kind |-> "undefined", t |-> 0]

Null == [kind |-> "null", t |-> 0]

Number(t) == [kind |-> "number", t |-> t]

BigNumberOf(t) == [kind |-> "bignumber", t |-> t]

\* an object without a toString of its own, such as the raw value
\* { value: "2.504", precision: 20 }: its text is "[object Object]"
RawValueOf(t) == [kind |-> "rawvalue", t |-> t]

\* Number(x) and Number(x.toString()): the number itself; a BigNumber object
\* converts through its decimal text; null is 0; undefined and the text of
\* any other object are NaN
ToNumber(a) ==
    IF a.kind \in {"number", "bignumber"} THEN [nan |-> FALSE, t |-> a.t]
    ELSE IF a.kind = "null" THEN [nan |-> FALSE, t |-> 0]
    ELSE [nan |-> TRUE, t |-> 0]

\* n.toFixed(2) for n >= 0 in thousandths, rounded to the nearest hundredth
ToFixed2(t) ==
    LET h == (t + 5) \div 10
    IN  [whole |-> h \div 100, digits |-> <<(h % 100) \div 10, h % 10>>]

ToUpperCase(code) ==
    IF code = "usd" THEN "USD"
    ELSE IF code = "eur" THEN "EUR"
    ELSE code

(***************************************************************************)
(* Operations, inputs, results.                                            *)
(***************************************************************************)
Input(amount, currency_code, data) ==
    [amount |-> amount, currency_code |-> currency_code, data |-> data]

NoInput == Input(Undefined, "", NoMeta)

NoResult == [kind |-> "none"]

Return(fields) == [kind |-> "return", value |-> fields]

Throw(type, message) == [kind |-> "throw", type |-> type, message |-> message]

NoRequest == [method |-> "", path |-> "", target |-> "", body |-> [has |-> FALSE]]

Request(method, path, target, body) ==
    [method |-> method, path |-> path, target |-> target, body |-> body]

NoBody == [has |-> FALSE]

IdleOp ==
    [name |-> "none", pc |-> "idle", input |-> NoInput, request |-> NoRequest,
     accessToken |-> NoToken, result |-> NoResult]

\* an operation that is about to make `request`
Started(name, input, request) ==
    [name |-> name, pc |-> "token", input |-> input, request |-> request,
     accessToken |-> NoToken, result |-> NoResult]

\* an operation that ended without making a request
Ended(name, input, result) ==
    [name |-> name, pc |-> "done", input |-> input, request |-> NoRequest,
     accessToken |-> NoToken, result |-> result]

\* input.data?.id and the like
DataGet(input, key) == MetaGet(input.data, key)

\* input.data || {}
DataOrEmpty(input) == IF input.data.has THEN input.data.kv ELSE EmptyKv

TokenPath == "/v1/oauth2/token"
OrdersPath == "/v2/checkout/orders"
OrderPath == "/v2/checkout/orders/{id}"
CapturePath == "/v2/checkout/orders/{id}/capture"
RefundPath == "/v2/payments/captures/{id}/refund"

(***************************************************************************)
(* Errors of getAccessToken and paypalRequest.                             *)
(***************************************************************************)
AuthError == Throw("INVALID_DATA", "Failed to authenticate with PayPal")

ApiError == Throw("INVALID_DATA", "PayPal API error")

(***************************************************************************)
(* initiatePayment                                                         *)
(***************************************************************************)
\* an order request that takes the amount for cents
InitiateRequestInCents(input) ==
    Request("POST", OrdersPath, "",
            [has |-> TRUE, intent |-> "CAPTURE",
             currency_code |-> ToUpperCase(input.currency_code),
             value |-> ToFixed2(ToNumber(input.amount).t \div 100)])

InitiateRequest(input) ==
    Request("POST", OrdersPath, "",
            [has |-> TRUE, intent |-> "CAPTURE",
             currency_code |-> ToUpperCase(input.currency_code),
             value |-> ToFixed2(ToNumber(input.amount).t)])

\* an initiatePayment that answers a repeated input with the order it made before
InitiatePaymentOnce(input) ==
    LET request == InitiateRequest(input)
        made == {i \in 1..Len(ppOrders) :
                   /\ ppOrders[i].value = request.body.value
                   /\ ppOrders[i].currency_code = request.body.currency_code}
    IN  IF made # {}
          THEN LET i == CHOOSE j \in made : TRUE
               IN  Ended("initiatePayment", input,
                         Return([id |-> IdOf(i),
                                 data |-> [id |-> IdOf(i), status |-> ppOrders[i].status]]))
          ELSE Started("initiatePayment", input, request)

InitiatePayment(input) == Started("initiatePayment", input, InitiateRequest(input))

InitiateResult(input, order) ==
    Return([id |-> order.id, data |-> [id |-> order.id, status |-> order.status]])

\* catch: log and rethrow
InitiateFailed(input, error) == error

(***************************************************************************)
(* authorizePayment                                                        *)
(***************************************************************************)
AuthorizePayment(input) ==
    LET orderId == DataGet(input, "id")
    IN  IF Falsy(orderId)
          THEN Ended("authorizePayment", input,
                     Throw("INVALID_DATA", "PayPal order ID is required"))
          ELSE Started("authorizePayment", input, Request("GET", OrderPath, orderId, NoBody))

\* a mapping that takes only APPROVED for authorized
AuthorizeStatusApproved(paypalStatus) ==
    IF paypalStatus = "APPROVED" THEN "authorized"
    ELSE IF paypalStatus = "VOIDED" THEN "canceled"
    ELSE "pending"

AuthorizeStatus(paypalStatus) ==
    IF paypalStatus \in {"APPROVED", "COMPLETED"} THEN "authorized"
    ELSE IF paypalStatus = "VOIDED" THEN "canceled"
    ELSE "pending"

AuthorizeResult(input, order) ==
    Return([status |-> AuthorizeStatus(order.status),
            data |-> [id |-> DataGet(input, "id"), paypal_status |-> order.status]])

\* a catch that leaves the session pending
AuthorizeFailedPending(input, error) ==
    Return([status |-> "pending",
            data |-> [id |-> DataGet(input, "id"), error |-> error.message]])

AuthorizeFailed(input, error) ==
    Return([status |-> "error",
            data |-> [id |-> DataGet(input, "id"), error |-> error.message]])

(***************************************************************************)
(* capturePayment                                                          *)
(***************************************************************************)
CapturePayment(input) ==
    LET orderId == DataGet(input, "id")
    IN  IF Falsy(orderId)
          THEN Ended("capturePayment", input,
                     Throw("INVALID_DATA", "PayPal order ID is required"))
          ELSE Started("capturePayment", input, Request("POST", CapturePath, orderId, NoBody))

\* purchase_units?.[0]?.payments?.captures?.[0]?.id and ...?.amount?.currency_code
FirstCapture(captured, key) ==
    IF Len(captured.captures) = 0 THEN JsUndefined ELSE captured.captures[1][key]

CaptureResult(input, captured) ==
    Return([data |-> [id |-> DataGet(input, "id"),
                      capture_id |-> FirstCapture(captured, "id"),
                      paypal_status |-> captured.status,
                      captured |-> TRUE,
                      currency_code |-> FirstCapture(captured, "currency_code")]])

\* a catch that reports the capture all the same
CaptureFailedQuiet(input, error) ==
    Return([data |-> [id |-> DataGet(input, "id"),
                      capture_id |-> JsUndefined,
                      paypal_status |-> "COMPLETED",
                      captured |-> TRUE,
                      currency_code |-> JsUndefined]])

\* catch: log and rethrow
CaptureFailed(input, error) == error

(***************************************************************************)
(* cancelPayment, deletePayment                                            *)
(***************************************************************************)
\* a cancelPayment that asks for an order id as authorizePayment does
CancelPaymentChecked(input) ==
    IF Falsy(DataGet(input, "id"))
      THEN Ended("cancelPayment", input, Throw("INVALID_DATA", "PayPal order ID is required"))
      ELSE Ended("cancelPayment", input,
                 Return([data |-> [id |-> DataGet(input, "id"), cancelled |-> TRUE]]))

CancelPayment(input) ==
    Ended("cancelPayment", input,
          Return([data |-> [id |-> DataGet(input, "id"), cancelled |-> TRUE]]))

DeletePayment(input) == Ended("deletePayment", input, Return([data |-> input.data]))

(***************************************************************************)
(* refundPayment                                                           *)
(***************************************************************************)
\* the refund body: the amount when one is given and it is a positive number
RefundBody(input) ==
    LET amountNum == ToNumber(input.amount)
        currency  == DataGet(input, "currency_code")
    IN  IF /\ input.amount.kind \notin {"undefined", "null"}
           /\ ~amountNum.nan
           /\ amountNum.t > 0
          THEN [has |-> TRUE, value |-> ToFixed2(amountNum.t),
                currency_code |-> IF Falsy(currency) THEN "USD" ELSE currency]
          ELSE NoBody

\* a refundPayment that does not look for the capture id first
RefundPaymentUnchecked(input) ==
    Started("refundPayment", input,
            Request("POST", RefundPath, DataGet(input, "capture_id"), RefundBody(input)))

RefundPayment(input) ==
    LET captureId == DataGet(input, "capture_id")
    IN  IF Falsy(captureId)
          THEN Ended("refundPayment", input,
                     Throw("INVALID_DATA", "PayPal capture ID is required for refunds"))
          ELSE Started("refundPayment", input,
                       Request("POST", RefundPath, captureId, RefundBody(input)))

\* { ...input.data, refund: refundResult }
RefundResult(input, refund) ==
    Return([data |-> ("refund" :> refund) @@ DataOrEmpty(input)])

RefundFailed(input, error) == error

(***************************************************************************)
(* getPaymentStatus                                                        *)
(***************************************************************************)
GetPaymentStatus(input) ==
    LET orderId == DataGet(input, "id")
    IN  IF Falsy(orderId)
          THEN Ended("getPaymentStatus", input, Return([status |-> "pending"]))
          ELSE Started("getPaymentStatus", input, Request("GET", OrderPath, orderId, NoBody))

\* the mapping of authorizePayment in the place of getPaymentStatus's own
PaymentStatusAsAuthorize(paypalStatus) ==
    IF paypalStatus \in {"APPROVED", "COMPLETED"} THEN "authorized"
    ELSE IF paypalStatus = "VOIDED" THEN "canceled"
    ELSE "pending"

\* a mapping that takes a saved order for authorized
PaymentStatusSavedAuthorized(paypalStatus) ==
    CASE paypalStatus = "COMPLETED" -> "captured"
      [] paypalStatus \in {"APPROVED", "SAVED"} -> "authorized"
      [] paypalStatus = "VOIDED" -> "canceled"
      [] OTHER -> "pending"

PaymentStatus(paypalStatus) ==
    CASE paypalStatus = "COMPLETED" -> "captured"
      [] paypalStatus = "APPROVED" -> "authorized"
      [] paypalStatus = "VOIDED" -> "canceled"
      [] paypalStatus \in {"CREATED", "SAVED", "PAYER_ACTION_REQUIRED"} -> "pending"
      [] OTHER -> "pending"

GetPaymentStatusResult(input, order) == Return([status |-> PaymentStatus(order.status)])

GetPaymentStatusFailed(input, error) == Return([status |-> "error"])

(***************************************************************************)
(* retrievePayment                                                         *)
(***************************************************************************)
RetrievePayment(input) ==
    LET orderId == DataGet(input, "id")
    IN  IF Falsy(orderId)
          THEN Ended("retrievePayment", input, Return([data |-> DataOrEmpty(input)]))
          ELSE Started("retrievePayment", input, Request("GET", OrderPath, orderId, NoBody))

RetrieveResult(input, order) ==
    Return([data |-> [id |-> order.id, status |-> order.status, paypal_order |-> order]])

RetrieveFailed(input, error) == Return([data |-> DataOrEmpty(input)])

(***************************************************************************)
(* updatePayment: with or without an order id, a new order through         *)
(* initiatePayment with the new amount and currency                        *)
(***************************************************************************)
\* an updatePayment that changes the order it is given where it has one
UpdatePaymentInPlace(input) ==
    IF Falsy(DataGet(input, "id"))
      THEN Started("updatePayment", input,
                   InitiateRequest(Input(input.amount, input.currency_code, NoMeta)))
      ELSE Started("updatePayment", input,
                   Request("PATCH", OrderPath, DataGet(input, "id"), NoBody))

UpdatePayment(input) ==
    Started("updatePayment", input,
            InitiateRequest(Input(input.amount, input.currency_code, NoMeta)))

UpdateResult(input, order) ==
    Return([data |-> InitiateResult(Input(input.amount, input.currency_code, NoMeta),
                                    order).value.data])

UpdateFailed(input, error) == InitiateFailed(input, error)

(***************************************************************************)
(* What an operation makes of the API response, and of a thrown error.     *)
(***************************************************************************)
OnResponse(name, input, response) ==
    CASE name = "initiatePayment"  -> InitiateResult(input, response)
      [] name = "authorizePayment" -> AuthorizeResult(input, response)
      [] name = "capturePayment"   -> CaptureResult(input, response)
      [] name = "refundPayment"    -> RefundResult(input, response)
      [] name = "getPaymentStatus" -> GetPaymentStatusResult(input, response)
      [] name = "retrievePayment"  -> RetrieveResult(input, response)
      [] name = "updatePayment"    -> UpdateResult(input, response)

OnError(name, input, error) ==
    CASE name = "initiatePayment"  -> InitiateFailed(input, error)
      [] name = "authorizePayment" -> AuthorizeFailed(input, error)
      [] name = "capturePayment"   -> CaptureFailed(input, error)
      [] name = "refundPayment"    -> RefundFailed(input, error)
      [] name = "getPaymentStatus" -> GetPaymentStatusFailed(input, error)
      [] name = "retrievePayment"  -> RetrieveFailed(input, error)
      [] name = "updatePayment"    -> UpdateFailed(input, error)

(***************************************************************************)
(* getWebhookActionAndData.  A payload holds data or none; data holds an   *)
(* event type and a resource or neither.  A field the event does not       *)
(* carry reads as undefined through the optional chaining, an amount       *)
(* without value as one that is not there.  Amount values are the decimal  *)
(* texts PayPal sends.                                                     *)
(***************************************************************************)
NoAmount == [has |-> FALSE, value |-> JsUndefined]

AmountOf(text) == [has |-> TRUE, value |-> text]

PurchaseUnit(amount) == [amount |-> amount]

Resource(id, purchase_units, amount, order_id) ==
    [has |-> TRUE, id |-> id, purchase_units |-> purchase_units, amount |-> amount,
     order_id |-> order_id]

NoResource ==
    [has |-> FALSE, id |-> JsUndefined, purchase_units |-> <<>>, amount |-> NoAmount,
     order_id |-> JsUndefined]

EventData(event_type, resource) ==
    [has |-> TRUE, event_type |-> event_type, resource |-> resource]

NoEventData == [has |-> FALSE, event_type |-> JsUndefined, resource |-> NoResource]

Payload(data) == [data |-> data]

\* Number(text) of a decimal text with two fraction digits, in thousandths
NumberOfText(text) == 1000 * text.whole + 100 * text.digits[1] + 10 * text.digits[2]

\* new BigNumber(Number(amount?.value || 0))
AmountOrZero(amount) ==
    IF amount.has THEN BigNumberOf(NumberOfText(amount.value)) ELSE BigNumberOf(0)

\* resource?.purchase_units?.[0]?.amount
FirstUnitAmount(resource) ==
    IF resource.purchase_units = <<>> THEN NoAmount ELSE resource.purchase_units[1].amount

NotSupported == Return([action |-> "not_supported"])

\* a handler that takes a refund event for a capture
WebhookActionRefundAsCapture(payload) ==
    LET eventType == payload.data.event_type
        resource == payload.data.resource
    IN  CASE eventType = "CHECKOUT.ORDER.APPROVED" ->
               Return([action |-> "authorized",
                       data |-> [session_id |-> resource.id,
                                 amount |-> AmountOrZero(FirstUnitAmount(resource))]])
          [] eventType \in {"PAYMENT.CAPTURE.COMPLETED", "PAYMENT.CAPTURE.REFUNDED"} ->
               Return([action |-> "captured",
                       data |-> [session_id |-> resource.order_id,
                                 amount |-> AmountOrZero(resource.amount)]])
          [] OTHER -> NotSupported

WebhookAction(payload) ==
    LET eventType == payload.data.event_type
        resource == payload.data.resource
    IN  CASE eventType = "CHECKOUT.ORDER.APPROVED" ->
               Return([action |-> "authorized",
                       data |-> [session_id |-> resource.id,
                                 amount |-> AmountOrZero(FirstUnitAmount(resource))]])
          [] eventType = "PAYMENT.CAPTURE.COMPLETED" ->
               Return([action |-> "captured",
                       data |-> [session_id |-> resource.order_id,
                                 amount |-> AmountOrZero(resource.amount)]])
          [] eventType = "PAYMENT.CAPTURE.REFUNDED" -> NotSupported
          [] OTHER -> NotSupported

GetWebhookActionAndData(payload) ==
    Ended("getWebhookActionAndData", payload, WebhookAction(payload))

(***************************************************************************)
(* PayPal's side of an API request: whether it can accept it, the orders   *)
(* it then holds, and what it answers.                                     *)
(***************************************************************************)
OrderView(i) ==
    [id |-> IdOf(i), status |-> ppOrders[i].status,
     currency_code |-> ppOrders[i].currency_code, value |-> ppOrders[i].value]

CanAccept(request) ==
    CASE request.path = OrdersPath  -> Len(ppOrders) < MaxOrders
      [] request.path = OrderPath   -> request.target \in OrderIds
      [] request.path = CapturePath ->
            /\ request.target \in OrderIds
            /\ ppOrders[OrderIndex(request.target)].status = "APPROVED"
      [] request.path = RefundPath  -> request.target \in CaptureIds

OrdersAfter(request) ==
    CASE request.path = OrdersPath ->
            Append(ppOrders, [status |-> "PAYER_ACTION_REQUIRED",
                              currency_code |-> request.body.currency_code,
                              value |-> request.body.value])
      [] request.path = CapturePath ->
            [ppOrders EXCEPT ![OrderIndex(request.target)].status = "COMPLETED"]
      [] OTHER -> ppOrders

Answer(request) ==
    CASE request.path = OrdersPath ->
            [id |-> IdOf(Len(ppOrders) + 1), status |-> "PAYER_ACTION_REQUIRED",
             currency_code |-> request.body.currency_code, value |-> request.body.value]
      [] request.path = OrderPath -> OrderView(OrderIndex(request.target))
      [] request.path = CapturePath ->
            LET i == OrderIndex(request.target)
            IN  [id |-> IdOf(i), status |-> "COMPLETED",
                 captures |-> << [id |-> CaptureIdOf(i),
                                  currency_code |-> ppOrders[i].currency_code,
                                  value |-> ppOrders[i].value] >>]
      [] request.path = RefundPath ->
            LET i == CaptureIndex(request.target)
            IN  [id |-> "REFUND", status |-> "COMPLETED",
                 value |-> IF request.body.has THEN request.body.value
                           ELSE ppOrders[i].value]

\* the bodies PayPal may answer with: for a capture, with the captures of the
\* first purchase unit or without them (purchase_units[0].payments.captures
\* is optional in PayPalOrder)
Answers(request) ==
    IF request.path = CapturePath
      THEN {Answer(request), [Answer(request) EXCEPT !.captures = <<>>]}
      ELSE {Answer(request)}

\* the body of a response that is not OK
ErrorText == [error |-> "refused"]

(***************************************************************************)
(* The steps of an operation.                                              *)
(***************************************************************************)
Sent(kind, request, bearer, ok, token) ==
    [kind |-> kind, method |-> request.method, path |-> request.path,
     target |-> request.target, body |-> request.body, bearer |-> bearer,
     ok |-> ok, token |-> token]

\* the log entry of an API request with the body of its response
Received(sent, response) == [response |-> response] @@ sent

\* a call arrives at the idle provider
Call(started) ==
    /\ op = IdleOp
    /\ op' = started
    /\ http' = <<>>
    /\ UNCHANGED <<ppOrders, lastToken, notPayPal>>

\* a getAccessToken that keeps the token of an earlier request
GetAccessTokenCached(ok) ==
    LET token == IF ok THEN NextToken(lastToken) ELSE NoToken
    IN  /\ op.pc = "token"
        /\ IF lastToken # NoToken
             THEN /\ op' = [op EXCEPT !.pc = "api", !.accessToken = lastToken]
                  /\ UNCHANGED <<http, lastToken>>
             ELSE /\ http' = Append(http, Sent("token", Request("POST", TokenPath, "", NoBody),
                                               NoToken, ok, token))
                  /\ lastToken' = IF ok THEN token ELSE lastToken
                  /\ op' = IF ok
                             THEN [op EXCEPT !.pc = "api", !.accessToken = token]
                             ELSE [op EXCEPT !.pc = "done",
                                             !.result = OnError(op.name, op.input, AuthError)]
        /\ UNCHANGED <<ppOrders, notPayPal>>

\* getAccessToken: one POST /v1/oauth2/token; a response that is not OK throws
GetAccessToken(ok) ==
    LET token == IF ok THEN NextToken(lastToken) ELSE NoToken
    IN  /\ op.pc = "token"
        /\ http' = Append(http, Sent("token", Request("POST", TokenPath, "", NoBody),
                                     NoToken, ok, token))
        /\ lastToken' = IF ok THEN token ELSE lastToken
        /\ op' = IF ok
                   THEN [op EXCEPT !.pc = "api", !.accessToken = token]
                   ELSE [op EXCEPT !.pc = "done",
                                   !.result = OnError(op.name, op.input, AuthError)]
        /\ UNCHANGED <<ppOrders, notPayPal>>

\* a paypalRequest that sends the request again after a response that is not OK
PaypalRequestAgain(accept) ==
    LET ok == accept /\ CanAccept(op.request)
    IN  /\ op.pc = "api"
        /\ \E response \in (IF ok THEN Answers(op.request) ELSE {ErrorText}) :
              /\ http' = Append(http, Received(Sent("api", op.request, op.accessToken, ok,
                                                    NoToken), response))
              /\ op' = IF ok
                         THEN [op EXCEPT !.pc = "done",
                                         !.result = OnResponse(op.name, op.input, response)]
                         ELSE op
        /\ ppOrders' = IF ok THEN OrdersAfter(op.request) ELSE ppOrders
        /\ UNCHANGED <<lastToken, notPayPal>>

\* paypalRequest after the token: one request to the endpoint; a response
\* that is not OK throws, an OK one is the result
PaypalRequest(accept) ==
    LET ok == accept /\ CanAccept(op.request)
    IN  /\ op.pc = "api"
        /\ \E response \in (IF ok THEN Answers(op.request) ELSE {ErrorText}) :
              /\ http' = Append(http, Received(Sent("api", op.request, op.accessToken, ok,
                                                    NoToken), response))
              /\ op' = [op EXCEPT !.pc = "done",
                                  !.result = IF ok
                                               THEN OnResponse(op.name, op.input, response)
                                               ELSE OnError(op.name, op.input, ApiError)]
        /\ ppOrders' = IF ok THEN OrdersAfter(op.request) ELSE ppOrders
        /\ UNCHANGED <<lastToken, notPayPal>>

\* the operation's promise settles; the provider is idle again
Settle ==
    /\ op.pc = "done"
    /\ op' = IdleOp
    /\ http' = <<>>
    /\ UNCHANGED <<ppOrders, lastToken, notPayPal>>

\* outside the provider: the buyer or PayPal moves an order that is not yet
\* captured to another status.  An operation sees PayPal's orders in its API
\* request alone, so a change while it runs is one before it or after it.
OrderStatusChanges(i, status) ==
    /\ op = IdleOp
    /\ ppOrders[i].status # "COMPLETED"
    /\ status # ppOrders[i].status
    /\ ppOrders' = [ppOrders EXCEPT ![i].status = status]
    /\ UNCHANGED <<lastToken, op, http, notPayPal>>

(***************************************************************************)
(* Inputs.                                                                 *)
(***************************************************************************)
\* the payments asked for: an amount and the currency code of the cart
Payments ==
    {[amount |-> Number(10000), currency_code |-> "usd"],
     [amount |-> Number(12506), currency_code |-> "eur"]}

RefundAmounts ==
    {Undefined, Null, Number(0), Number(2504), BigNumberOf(10000), RawValueOf(2504)}

\* the data of a payment session: none, empty, that of an order, that of a
\* captured order
SessionData ==
    {NoMeta, Meta(EmptyKv)}
      \cup {Meta([id |-> id]) : id \in OrderIds}
      \cup {Meta([id |-> IdOf(i), capture_id |-> CaptureIdOf(i),
                  currency_code |-> ppOrders[i].currency_code]) :
              i \in {j \in 1..Len(ppOrders) : ppOrders[j].status = "COMPLETED"}}
      \cup {Meta([id |-> IdOf(i), capture_id |-> CaptureIdOf(i)]) :
              i \in {j \in 1..Len(ppOrders) : ppOrders[j].status = "COMPLETED"}}

CallInitiatePayment ==
    /\ Len(ppOrders) < MaxOrders
    /\ \E p \in Payments : Call(InitiatePayment(Input(p.amount, p.currency_code, NoMeta)))

CallAuthorizePayment ==
    \E d \in SessionData : Call(AuthorizePayment(Input(Undefined, "", d)))

CallCapturePayment ==
    \E d \in SessionData : Call(CapturePayment(Input(Undefined, "", d)))

CallCancelPayment ==
    \E d \in SessionData : Call(CancelPayment(Input(Undefined, "", d)))

CallRefundPayment ==
    \E d \in SessionData, a \in RefundAmounts : Call(RefundPayment(Input(a, "", d)))

CallDeletePayment ==
    \E d \in SessionData : Call(DeletePayment(Input(Undefined, "", d)))

CallGetPaymentStatus ==
    \E d \in SessionData : Call(GetPaymentStatus(Input(Undefined, "", d)))

CallRetrievePayment ==
    \E d \in SessionData : Call(RetrievePayment(Input(Undefined, "", d)))

CallUpdatePayment ==
    /\ Len(ppOrders) < MaxOrders
    /\ \E d \in SessionData, p \in Payments :
          Call(UpdatePayment(Input(p.amount, p.currency_code, d)))

\* the events received: of an approved order with one purchase unit, with two,
\* with one that has no amount and with none; of a capture with and without
\* amount and related order; without a resource; and a payload without data
WebhookResources ==
    {NoResource,
     Resource("ORDER-1", <<PurchaseUnit(AmountOf([whole |-> 400, digits |-> <<0, 0>>]))>>,
              NoAmount, JsUndefined),
     Resource("ORDER-2", <<PurchaseUnit(AmountOf([whole |-> 12, digits |-> <<5, 1>>])),
                           PurchaseUnit(AmountOf([whole |-> 400, digits |-> <<0, 0>>]))>>,
              NoAmount, JsUndefined),
     Resource("ORDER-1", <<PurchaseUnit(NoAmount)>>, NoAmount, JsUndefined),
     Resource(JsUndefined, <<>>, NoAmount, JsUndefined),
     Resource("CAPTURE-1", <<>>, AmountOf([whole |-> 12, digits |-> <<5, 1>>]), "ORDER-1"),
     Resource("CAPTURE-2", <<>>, NoAmount, JsUndefined)}

WebhookEventTypes ==
    {"CHECKOUT.ORDER.APPROVED", "PAYMENT.CAPTURE.COMPLETED", "PAYMENT.CAPTURE.REFUNDED",
     "PAYMENT.CAPTURE.DENIED", JsUndefined}

WebhookPayloads ==
    {Payload(NoEventData)}
      \cup {Payload(EventData(t, r)) : t \in WebhookEventTypes, r \in WebhookResources}

CallGetWebhookActionAndData ==
    \E payload \in WebhookPayloads : Call(GetWebhookActionAndData(payload))

PayPalIdle ==
    /\ ppOrders = <<>>
    /\ lastToken = NoToken
    /\ op = IdleOp
    /\ http = <<>>

PayPalNext ==
    \/ CallInitiatePayment
    \/ CallAuthorizePayment
    \/ CallCapturePayment
    \/ CallCancelPayment
    \/ CallRefundPayment
    \/ CallDeletePayment
    \/ CallGetPaymentStatus
    \/ CallRetrievePayment
    \/ CallUpdatePayment
    \/ CallGetWebhookActionAndData
    \/ \E ok \in BOOLEAN : GetAccessToken(ok)
    \/ \E accept \in BOOLEAN : PaypalRequest(accept)
    \/ Settle
    \/ \E i \in 1..Len(ppOrders), s \in PayPalStatuses \ {"COMPLETED"} :
          OrderStatusChanges(i, s)

(***************************************************************************)
(* The admin collection-metadata widget.  A Save or a Delete sends an      *)
(* update of the collection's metadata and goes on when the answer comes;  *)
(* the admin API applies the updates it receives in any order and stores   *)
(* the metadata object it is given.                                        *)
(***************************************************************************)
MaxInFlight == 2

Descriptions == {"", "Sun"}

ImageUrls == {"", "img1"}

\* the collection as the admin page first loads it
InitialMetadata ==
    { NoMeta,
      Meta([seo |-> "kw"]),
      Meta([description |-> "Sun", image_url |-> "img1", seo |-> "kw"]) }

Fields(description, image_url) == [description |-> description, image_url |-> image_url]

\* x || ""
OrEmpty(x) == IF Falsy(x) THEN "" ELSE x

\* useEffect on data: with metadata, the saved and the edited values become
\* those of the metadata; without, they stay
LoadedFrom(metadata, current) ==
    IF metadata.has
      THEN Fields(OrEmpty(MetaGet(metadata, "description")),
                  OrEmpty(MetaGet(metadata, "image_url")))
      ELSE current

\* (data.metadata as object) || {}
MetadataOrEmpty(metadata) == IF metadata.has THEN metadata.kv ELSE EmptyKv

\* a Save without the spread of the metadata loaded
SavePayloadOfTwoKeys(metadata, edited) ==
    Meta([description |-> OrNull(edited.description),
          image_url |-> OrNull(edited.image_url)])

\* the metadata handleSave sends
SavePayload(metadata, edited) ==
    Meta([description |-> OrNull(edited.description),
          image_url |-> OrNull(edited.image_url)] @@ MetadataOrEmpty(metadata))

\* the metadata handleDelete sends
DeletePayload(metadata) ==
    Meta([description |-> JsNull, image_url |-> JsNull] @@ MetadataOrEmpty(metadata))

UpdateRequest(kind, payload, edited) ==
    [kind |-> kind, stage |-> "sent", metadata |-> payload, edited |-> edited]

HasContent == ~Falsy(saved.description) \/ ~Falsy(saved.image_url)

\* the update requests sent and not yet settled are a bag: nothing orders them
One(r) == SetToBag({r})

InFlight == BagToSet(inflight)

\* the data prop changes: the page loaded the collection again
DataLoaded ==
    /\ dataMetadata' = serverMetadata
    /\ saved' = LoadedFrom(serverMetadata, saved)
    /\ edit' = LoadedFrom(serverMetadata, edit)
    /\ UNCHANGED <<serverMetadata, ui, inflight, notWidget>>

HandleOpenDrawer ==
    /\ ~ui.isDrawerOpen
    /\ edit' = saved
    /\ ui' = [ui EXCEPT !.isDrawerOpen = TRUE]
    /\ UNCHANGED <<serverMetadata, dataMetadata, saved, inflight, notWidget>>

HandleCloseDrawer ==
    /\ ui.isDrawerOpen
    /\ ui' = [ui EXCEPT !.isDrawerOpen = FALSE]
    /\ UNCHANGED <<serverMetadata, dataMetadata, saved, edit, inflight, notWidget>>

\* the description text area changes
ChangeDescription(text) ==
    /\ ui.isDrawerOpen
    /\ text # edit.description
    /\ edit' = [edit EXCEPT !.description = text]
    /\ UNCHANGED <<serverMetadata, dataMetadata, saved, ui, inflight, notWidget>>

\* the button on the image preview
RemoveImage ==
    /\ ui.isDrawerOpen
    /\ ~Falsy(edit.image_url)
    /\ edit' = [edit EXCEPT !.image_url = ""]
    /\ UNCHANGED <<serverMetadata, dataMetadata, saved, ui, inflight, notWidget>>

UploadFiles == {"none", "text file", "large image", "image"}

\* handleFileUpload up to the upload request: no file, a file that is no
\* image and an image over 5 MB end it
HandleFileUpload(file) ==
    /\ ui.isDrawerOpen
    /\ Falsy(edit.image_url)
    /\ ~ui.isUploading
    /\ ui' = [ui EXCEPT !.isUploading = (file = "image")]
    /\ UNCHANGED <<serverMetadata, dataMetadata, saved, edit, inflight, notWidget>>

\* handleFileUpload from the answer on
UploadSettles(url) ==
    /\ ui.isUploading
    /\ edit' = IF url # "" THEN [edit EXCEPT !.image_url = url] ELSE edit
    /\ ui' = [ui EXCEPT !.isUploading = FALSE]
    /\ UNCHANGED <<serverMetadata, dataMetadata, saved, inflight, notWidget>>

\* handleSave up to the update request
HandleSave ==
    /\ ui.isDrawerOpen
    /\ ~ui.isSaving /\ ~ui.isUploading
    /\ BagCardinality(inflight) < MaxInFlight
    /\ ui' = [ui EXCEPT !.isSaving = TRUE]
    /\ inflight' = inflight (+) One(UpdateRequest("save", SavePayload(dataMetadata, edit), edit))
    /\ UNCHANGED <<serverMetadata, dataMetadata, saved, edit, notWidget>>

\* handleSave from the answer on: the update was applied and answered, or it
\* failed (at the admin API or on the way)
SaveSettles(r, ok) ==
    /\ r \in InFlight
    /\ r.kind = "save"
    /\ ok => r.stage = "applied"
    /\ IF ok
         THEN /\ saved' = r.edited
              /\ ui' = [ui EXCEPT !.isDrawerOpen = FALSE, !.isSaving = FALSE]
         ELSE /\ saved' = saved
              /\ ui' = [ui EXCEPT !.isSaving = FALSE]
    /\ inflight' = inflight (-) One(r)
    /\ UNCHANGED <<serverMetadata, dataMetadata, edit, notWidget>>

\* handleDelete up to the update request; nothing happens unless confirmed
HandleDelete(confirmed) ==
    /\ HasContent
    /\ ~ui.isDrawerOpen
    /\ BagCardinality(inflight) < MaxInFlight
    /\ IF confirmed
         THEN /\ ui' = [ui EXCEPT !.isSaving = TRUE]
              /\ inflight' = inflight (+) One(UpdateRequest("delete", DeletePayload(dataMetadata),
                                                             Fields("", "")))
         ELSE UNCHANGED <<ui, inflight>>
    /\ UNCHANGED <<serverMetadata, dataMetadata, saved, edit, notWidget>>

\* handleDelete from the answer on
DeleteSettles(r, ok) ==
    /\ r \in InFlight
    /\ r.kind = "delete"
    /\ ok => r.stage = "applied"
    /\ IF ok
         THEN saved' = Fields("", "") /\ edit' = Fields("", "")
         ELSE UNCHANGED <<saved, edit>>
    /\ ui' = [ui EXCEPT !.isSaving = FALSE]
    /\ inflight' = inflight (-) One(r)
    /\ UNCHANGED <<serverMetadata, dataMetadata, notWidget>>

\* sdk.admin.productCollection.update at the admin API: the collection's
\* metadata becomes the metadata sent
ServerUpdates(r) ==
    /\ r \in InFlight
    /\ r.stage = "sent"
    /\ serverMetadata' = r.metadata
    /\ inflight' = (inflight (-) One(r)) (+) One([r EXCEPT !.stage = "applied"])
    /\ UNCHANGED <<dataMetadata, saved, edit, ui, notWidget>>

WidgetIdle ==
    /\ serverMetadata = NoMeta
    /\ dataMetadata = NoMeta
    /\ saved = Fields("", "")
    /\ edit = Fields("", "")
    /\ ui = [isDrawerOpen |-> FALSE, isSaving |-> FALSE, isUploading |-> FALSE]
    /\ inflight = EmptyBag

\* the widget mounted on the page of a collection
WidgetStart ==
    /\ serverMetadata \in InitialMetadata
    /\ dataMetadata = serverMetadata
    /\ saved = LoadedFrom(serverMetadata, Fields("", ""))
    /\ edit = LoadedFrom(serverMetadata, Fields("", ""))
    /\ ui = [isDrawerOpen |-> FALSE, isSaving |-> FALSE, isUploading |-> FALSE]
    /\ inflight = EmptyBag

WidgetNext ==
    \/ DataLoaded
    \/ HandleOpenDrawer
    \/ HandleCloseDrawer
    \/ \E text \in Descriptions : ChangeDescription(text)
    \/ RemoveImage
    \/ \E file \in UploadFiles : HandleFileUpload(file)
    \/ \E url \in ImageUrls : UploadSettles(url)
    \/ HandleSave
    \/ \E r \in InFlight, ok \in BOOLEAN : SaveSettles(r, ok)
    \/ \E confirmed \in BOOLEAN : HandleDelete(confirmed)
    \/ \E r \in InFlight, ok \in BOOLEAN : DeleteSettles(r, ok)
    \/ \E r \in InFlight : ServerUpdates(r)

(***************************************************************************)
(* The seed script seedDemoData: a straight line of awaited calls into the *)
(* framework.  seedWorld is what the framework holds, seedEnv the script's *)
(* local variables (a list of ids each, empty for undefined, null and the  *)
(* empty list), seedLog the calls and how they ended, in order.            *)
(***************************************************************************)
MaxItems == 2

\* Math.random() in RandomResolution steps from 0 up to, not including, 1
RandomResolution == 42

RandomValues == 0..(RandomResolution - 1)

\* a quantity drawn from one value more
StockQuantityOfTwentyTwo(random) == ((random * 22) \div RandomResolution) + 5

\* Math.floor(Math.random() * 21) + 5
StockQuantity(random) == ((random * 21) \div RandomResolution) + 5

Step(name, line, uses, binds, makes, when) ==
    [name |-> name, line |-> line, uses |-> uses, binds |-> binds, makes |-> makes,
     when |-> when]

\* the calls of the script in the order written: the variables the input of
\* each reads, the variable its result is assigned to, what it adds to the
\* framework's data, and the condition it is under
SeedSteps ==
    << Step("listStores", 68, {}, "store", "", "always"),
       Step("listSalesChannels", 69, {}, "defaultSalesChannel", "", "always"),
       Step("createSalesChannelsWorkflow", 75, {}, "defaultSalesChannel", "sc_new",
            "no sales channel"),
       Step("updateStoreCurrencies", 89, {"store"}, "", "store currencies", "always"),
       Step("updateStoresWorkflow", 104, {"store", "defaultSalesChannel"}, "",
            "store default sales channel", "always"),
       Step("createRegionsWorkflow", 113, {}, "southAmericaRegion", "reg_new", "always"),
       Step("createTaxRegionsWorkflow", 129, {}, "", "tax regions", "always"),
       Step("createStockLocationsWorkflow", 140, {}, "stockLocation", "sloc_new", "always"),
       Step("updateStoresWorkflow", 158, {"store", "stockLocation"}, "",
            "store default location", "always"),
       Step("link.create", 167, {"stockLocation"}, "", "location provider link", "always"),
       Step("listShippingProfiles", 177, {}, "shippingProfile", "", "always"),
       Step("createShippingProfilesWorkflow", 184, {}, "shippingProfile", "sp_new",
            "no shipping profile"),
       Step("createFulfillmentSets", 197, {}, "fulfillmentSet", "fuset_new", "always"),
       Step("link.create", 222, {"stockLocation", "fulfillmentSet"}, "",
            "location fulfillment set link", "always"),
       Step("createShippingOptionsWorkflow", 232,
            {"fulfillmentSet", "shippingProfile", "southAmericaRegion"}, "",
            "shipping options", "always"),
       Step("linkSalesChannelsToStockLocationWorkflow", 306,
            {"stockLocation", "defaultSalesChannel"}, "", "channel location link", "always"),
       Step("createApiKeysWorkflow", 315, {}, "publishableApiKey", "apk_new", "always"),
       Step("linkSalesChannelsToApiKeyWorkflow", 330,
            {"publishableApiKey", "defaultSalesChannel"}, "", "channel key link", "always"),
       Step("createProductCategoriesWorkflow", 340, {}, "categoryResult", "pcat_new", "always"),
       Step("createProductsWorkflow", 365,
            {"categoryResult", "shippingProfile", "defaultSalesChannel"}, "",
            "products", "always"),
       Step("query.graph", 811, {}, "inventoryItems", "", "always"),
       Step("createInventoryLevelsWorkflow", 828, {"stockLocation", "inventoryItems"}, "",
            "inventory levels", "always") >>

NumSteps == Len(SeedSteps)

SeedNames == {SeedSteps[i].binds : i \in 1..NumSteps} \ {""}

\* the variables whose .id (or [0].id) the input of a step takes; the
\* inventory items are only iterated over
Dereferenced(step) == step.uses \ {"inventoryItems"}

ItemIds(n) == [i \in 1..n |-> "iitem_" \o ToString(i)]

\* what the framework returns to a call that succeeds
ResultOf(step, world) ==
    CASE step.name = "listStores" -> IF world.hasStore THEN <<"store_0">> ELSE <<>>
      [] step.name = "listSalesChannels" ->
            IF world.hasSalesChannel THEN <<"sc_0">> ELSE <<>>
      [] step.name = "listShippingProfiles" ->
            IF world.hasShippingProfile THEN <<"sp_0">> ELSE <<>>
      [] step.name = "query.graph" -> ItemIds(world.items)
      [] OTHER -> <<step.makes>>

\* whether the script, with its variables as in env, goes through step i
Runs(i, env) ==
    CASE SeedSteps[i].when = "always" -> TRUE
      [] SeedSteps[i].when = "no sales channel" -> env["defaultSalesChannel"] = <<>>
      [] SeedSteps[i].when = "no shipping profile" -> env["shippingProfile"] = <<>>

\* the step the script goes to after step i
RECURSIVE StepAfter(_, _)
StepAfter(i, env) ==
    IF i + 1 > NumSteps THEN NumSteps + 1
    ELSE IF Runs(i + 1, env) THEN i + 1
    ELSE StepAfter(i + 1, env)

SeedEvent(step, event, refs) == [step |-> step, event |-> event, refs |-> refs]

\* the ids the input of a step takes from the script's variables
RefsOf(step, env) == UNION {{env[n][k] : k \in 1..Len(env[n])} : n \in step.uses}

\* a script that catches the error of a step and goes on with the next
AfterErrorGoesOn(status, pc) == [status |-> "ready", pc |-> pc + 1]

\* a rejected await or a thrown error leaves seedDemoData: the script is over
AfterError(status, pc) == [status |-> "failed", pc |-> pc]
(***************************************************************************)
(* The script between two awaits.                                          *)
(***************************************************************************)
\* the input of the step is evaluated and the call made; reading .id of a
\* variable that holds nothing throws instead
SeedCall ==
    LET step == SeedSteps[seedPc]
        threw == \E n \in Dereferenced(step) : seedEnv[n] = <<>>
        after == AfterError(seedStatus, seedPc)
    IN  /\ seedStatus = "ready"
        /\ step.name # "createInventoryLevelsWorkflow"
        /\ IF threw
             THEN /\ seedLog' = Append(seedLog, SeedEvent(seedPc, "threw", {}))
                  /\ seedStatus' = after.status
                  /\ seedPc' = after.pc
             ELSE /\ seedLog' = Append(seedLog, SeedEvent(seedPc, "call", RefsOf(step, seedEnv)))
                  /\ seedStatus' = "awaiting"
                  /\ seedPc' = seedPc
        /\ UNCHANGED <<seedWorld, seedEnv, seedLevels, notSeed>>

\* the loop over the inventory items and the last call
SeedCallInventoryLevels ==
    LET step == SeedSteps[seedPc]
        items == seedEnv["inventoryItems"]
    IN  /\ seedStatus = "ready"
        /\ step.name = "createInventoryLevelsWorkflow"
        /\ \E random \in [1..Len(items) -> RandomValues] :
              seedLevels' = [i \in 1..Len(items) |->
                               [location_id |-> seedEnv["stockLocation"][1],
                                stocked_quantity |-> StockQuantity(random[i]),
                                inventory_item_id |-> items[i]]]
        /\ seedLog' = Append(seedLog, SeedEvent(seedPc, "call", RefsOf(step, seedEnv)))
        /\ seedStatus' = "awaiting"
        /\ UNCHANGED <<seedWorld, seedEnv, seedPc, notSeed>>

\* the awaited call succeeds: the framework holds what it made, the result is
\* assigned, and the script goes on
SeedResolve ==
    LET step == SeedSteps[seedPc]
        env == IF step.binds = "" THEN seedEnv
               ELSE [seedEnv EXCEPT ![step.binds] = ResultOf(step, seedWorld)]
        next == StepAfter(seedPc, env)
        result == IF step.binds = "" THEN {} ELSE RefsOf([uses |-> {step.binds}], env)
    IN  /\ seedStatus = "awaiting"
        /\ seedWorld' = IF step.makes = "" THEN seedWorld
                        ELSE [seedWorld EXCEPT !.made = @ \cup {step.makes}]
        /\ seedEnv' = env
        /\ seedLog' = Append(seedLog, SeedEvent(seedPc, "done", result))
        /\ seedPc' = next
        /\ seedStatus' = IF next > NumSteps THEN "finished" ELSE "ready"
        /\ UNCHANGED <<seedLevels, notSeed>>

\* the awaited call fails: the framework keeps nothing of it, and the error
\* leaves the script
SeedReject ==
    LET after == AfterError(seedStatus, seedPc)
    IN  /\ seedStatus = "awaiting"
        /\ seedLog' = Append(seedLog, SeedEvent(seedPc, "failed", {}))
        /\ seedStatus' = after.status
        /\ seedPc' = after.pc
        /\ UNCHANGED <<seedWorld, seedEnv, seedLevels, notSeed>>

NoSeedWorld ==
    [hasStore |-> FALSE, hasSalesChannel |-> FALSE, hasShippingProfile |-> FALSE,
     items |-> 0, made |-> {}]

SeedIdle ==
    /\ seedWorld = NoSeedWorld
    /\ seedPc = 0
    /\ seedStatus = "idle"
    /\ seedEnv = [n \in SeedNames |-> <<>>]
    /\ seedLog = <<>>
    /\ seedLevels = <<>>

\* medusa exec on a database that holds a store or none, the default sales
\* channel or none, a default shipping profile or none; items is the number
\* of inventory items the products come with
SeedStart ==
    /\ seedWorld \in [hasStore : BOOLEAN, hasSalesChannel : BOOLEAN,
                      hasShippingProfile : BOOLEAN, items : 1..MaxItems, made : {{}}]
    /\ seedPc = 1
    /\ seedStatus = "ready"
    /\ seedEnv = [n \in SeedNames |-> <<>>]
    /\ seedLog = <<>>
    /\ seedLevels = <<>>

SeedNext ==
    \/ SeedCall
    \/ SeedCallInventoryLevels
    \/ SeedResolve
    \/ SeedReject
(***************************************************************************)
(* The specifications.                                                     *)
(***************************************************************************)
StoreQuiet == collections = {} /\ categories = {} /\ StoreIdle

StoreInit == StoreStart /\ PayPalIdle /\ WidgetIdle /\ SeedIdle

SpecStore == StoreInit /\ [][StoreNext]_vars

PayPalInit == PayPalIdle /\ StoreQuiet /\ WidgetIdle /\ SeedIdle

SpecPayPal == PayPalInit /\ [][PayPalNext]_vars

WidgetInit == WidgetStart /\ StoreQuiet /\ PayPalIdle /\ SeedIdle

SpecWidget == WidgetInit /\ [][WidgetNext]_vars

SeedInit == StoreQuiet /\ PayPalIdle /\ WidgetIdle /\ SeedStart

SpecSeed == SeedInit /\ [][SeedNext]_vars
(***************************************************************************)
(* Properties of the store routes (SpecStore).                             *)
(***************************************************************************)
Answered(route) == req.route = route /\ res # <<>>

Ok(route) == Answered(route) /\ res[1].status = 200

\* the stored row an item of a response was projected from
CollectionRow(id) == CHOOSE c \in collections : c.id = id

CategoryRow(id) == CHOOSE c \in categories : c.id = id

\* the value stored under key in an entity's metadata, null when there is no
\* metadata, no such key, or a null or empty value
StoredOrNull(metadata, key) ==
    IF metadata.has /\ key \in DOMAIN metadata.kv /\ metadata.kv[key] \notin {JsNull, ""}
      THEN metadata.kv[key]
      ELSE JsNull

ColumnOrNull(value) == IF value \in {JsNull, ""} THEN JsNull ELSE value

Range(s) == {s[i] : i \in 1..Len(s)}

\* the collections and categories a 200 response carries
CollectionItems ==
    IF Ok("collection") THEN {res[1].body.collection}
    ELSE IF Ok("collections") THEN Range(res[1].body.collections)
    ELSE {}

CategoryItems ==
    IF Ok("category") THEN {res[1].body.category.core}
    ELSE IF Ok("categories") THEN Range(res[1].body.categories)
    ELSE {}

\* C1: answering a GET request of any of the four store routes changes
\* neither the stored collections nor the stored categories, and the handler
\* calls only list / listAndCount methods of the product service.
C1_RoutesReadOnly ==
    [][ /\ collections' = collections
        /\ categories' = categories
        /\ \A i \in 1..Len(svcCalls') : IsReadMethod(svcCalls'[i].method) ]_vars

C1_Witness ==
    /\ Ok("collections")
    /\ Len(res[1].body.collections) >= 2
    /\ svcCalls # <<>>

\* C5 as stated: for collections and for categories alike, the description
\* and image_url of a response are the values under metadata.description and
\* metadata.image_url, null when missing.
C5_BothFromMetadata ==
    /\ \A item \in CollectionItems :
         /\ item.description = StoredOrNull(CollectionRow(item.id).metadata, "description")
         /\ item.image_url = StoredOrNull(CollectionRow(item.id).metadata, "image_url")
    /\ \A item \in CategoryItems :
         /\ item.description = StoredOrNull(CategoryRow(item.id).metadata, "description")
         /\ item.image_url = StoredOrNull(CategoryRow(item.id).metadata, "image_url")

\* C5 amended: a collection's description and image_url are the values under
\* metadata.description and metadata.image_url; a category's image_url is the
\* value under metadata.image_url, and its description is the category's own
\* description column; each is null when missing, null or empty.
C5_MetadataProjection ==
    /\ \A item \in CollectionItems :
         /\ item.description = StoredOrNull(CollectionRow(item.id).metadata, "description")
         /\ item.image_url = StoredOrNull(CollectionRow(item.id).metadata, "image_url")
    /\ \A item \in CategoryItems :
         /\ item.description = ColumnOrNull(CategoryRow(item.id).description)
         /\ item.image_url = StoredOrNull(CategoryRow(item.id).metadata, "image_url")

C5_Witness ==
    /\ Ok("categories")
    /\ \E item \in CategoryItems :
         /\ item.image_url = "cimg1"
         /\ item.description = "Shirts"
         /\ MetaGet(CategoryRow(item.id).metadata, "description") = "meta text"

\* the integer a list route uses for a parameter, as C6 states it: the parsed
\* integer, the default when the parameter is absent or not a number
ParsedOr(q, default) == IF ParseInt(q).nan THEN default ELSE ParseInt(q).n

\* the same, with the default also for a parameter that parses to 0
ParsedNonZeroOr(q, default) ==
    IF ParseInt(q).nan \/ ParseInt(q).n = 0 THEN default ELSE ParseInt(q).n

ListRoutes == {"collections", "categories"}

DefaultLimitOf(route) ==
    IF route = "collections" THEN DefaultCollectionLimit ELSE DefaultCategoryLimit

\* the number of stored records a list request matches
TotalMatching ==
    IF req.route = "collections" THEN Cardinality(collections)
    ELSE Cardinality({c \in categories :
                        /\ c.is_active /\ ~c.is_internal
                        /\ req.parent_category_id = "null" => c.parent_category_id = JsNull
                        /\ req.parent_category_id \notin {"null", "", JsUndefined}
                             => c.parent_category_id = req.parent_category_id})

\* what C6 says of a list request, for the limit and offset the route is to use
PaginationAsStated(limit, offset) ==
    /\ svcCalls[1].skip = offset
    /\ svcCalls[1].take = limit
    /\ res[1].status = 200 =>
         /\ res[1].body.limit = limit
         /\ res[1].body.offset = offset
         /\ res[1].body.count = TotalMatching

\* C6 as stated: limit and offset are the parsed integers, with the default
\* (20 / 100 / 0) when the parameter is absent or not a number.
C6_ParsedOrDefault ==
    \A route \in ListRoutes :
        Answered(route) =>
            PaginationAsStated(ParsedOr(req.limit, DefaultLimitOf(route)),
                               ParsedOr(req.offset, DefaultOffset))

\* What the list routes do with these parameters: they query with skip =
\* offset and take = limit, where limit and offset are the parsed integers,
\* with the default (20 / 100 / 0) when the parameter is absent, not a number
\* or parses to 0 (a limit of 0 gives the default number of records, not
\* none); a 200 response echoes that limit and offset, and its count is the
\* number of matching records whatever limit and offset are.
PaginationAsCoded ==
    \A route \in ListRoutes :
        Answered(route) =>
            PaginationAsStated(ParsedNonZeroOr(req.limit, DefaultLimitOf(route)),
                               ParsedNonZeroOr(req.offset, DefaultOffset))

\* C7: the category list returns only active, non-internal categories; only
\* root categories when parent_category_id is "null", only the children of the
\* given parent when it is another non-empty text, of any parent when it is
\* absent; ordered by rank ascending.
C7_CategoryFilter ==
    (Ok("categories") /\ req.parent_category_id # "") =>
        LET items == res[1].body.categories
            visible == {c \in categories :
                          /\ c.is_active /\ ~c.is_internal
                          /\ \/ req.parent_category_id = JsUndefined
                             \/ /\ req.parent_category_id = "null"
                                /\ c.parent_category_id = JsNull
                             \/ /\ req.parent_category_id \notin {"null", JsUndefined}
                                /\ c.parent_category_id = req.parent_category_id}
        IN  /\ {items[i].id : i \in 1..Len(items)} \subseteq {c.id : c \in visible}
            /\ res[1].body.count = Cardinality(visible)
            /\ Len(items) = Cardinality(visible) \/ Len(items) = svcCalls[1].take
                 \/ svcCalls[1].skip > 0
            /\ svcCalls[1].skip = 0 /\ svcCalls[1].take >= Cardinality(visible)
                 => {items[i].id : i \in 1..Len(items)} = {c.id : c \in visible}
            /\ \A i \in 1..Len(items), j \in 1..Len(items) :
                 i < j => items[i].rank <= items[j].rank

C7_Witness ==
    /\ Ok("categories")
    /\ req.parent_category_id = "pcat_1"
    /\ Len(res[1].body.categories) = 1
    /\ res[1].body.categories[1].handle = "tees"
    /\ \E c \in categories : c.parent_category_id = "pcat_1" /\ ~c.is_active

\* C8: a by-handle request gets exactly one response: 500 with the error
\* message when the product service throws; otherwise 404 with a "not found"
\* message exactly when no stored record matches the handle (for a category:
\* no active, non-internal one), and 200 with the projection of the match
\* when one does.
C8_ByHandleResponse ==
    /\ Answered("collection") =>
         LET match == {c \in collections : c.handle = req.handle}
         IN  /\ Len(res) = 1
             /\ req.fault => res[1].status = 500 /\ res[1].body.error = "service error"
             /\ ~req.fault /\ match = {} =>
                  res[1] = [status |-> 404, body |-> [message |-> "Collection not found"]]
             /\ ~req.fault /\ match # {} =>
                  /\ res[1].status = 200
                  /\ \E c \in match :
                       /\ res[1].body.collection.id = c.id
                       /\ res[1].body.collection.title = c.title
                       /\ res[1].body.collection.handle = c.handle
    /\ Answered("category") =>
         LET match == {c \in categories :
                         c.handle = req.handle /\ c.is_active /\ ~c.is_internal}
         IN  /\ Len(res) = 1
             /\ req.fault => res[1].status = 500 /\ res[1].body.error = "service error"
             /\ ~req.fault /\ match = {} =>
                  res[1] = [status |-> 404, body |-> [message |-> "Category not found"]]
             /\ ~req.fault /\ match # {} =>
                  /\ res[1].status = 200
                  /\ \E c \in match :
                       /\ res[1].body.category.core.id = c.id
                       /\ res[1].body.category.core.handle = c.handle
                       /\ res[1].body.category.core.rank = c.rank

C8_Witness ==
    /\ Answered("category")
    /\ req.handle = "hidden"
    /\ \E c \in categories : c.handle = "hidden"
    /\ res[1].status = 404

(***************************************************************************)
(* Properties of the PayPal provider.  http is the log of the requests the *)
(* operation in progress has sent, in the order sent.                      *)
(***************************************************************************)
RequestsOf(kind) == {i \in 1..Len(http) : http[i].kind = kind}

\* each of the two requests at most once, and nothing after a response that
\* is not OK: the operation is over with a result
SentOnceAndOver ==
    /\ Cardinality(RequestsOf("token")) <= 1
    /\ Cardinality(RequestsOf("api")) <= 1
    /\ \A i \in 1..Len(http) :
         ~http[i].ok => i = Len(http) /\ op.pc = "done" /\ op.result # NoResult

Thrown == op.result.kind = "throw"

ErrorReturned ==
    /\ op.result.kind = "return"
    /\ "status" \in DOMAIN op.result.value
    /\ op.result.value.status = "error"

\* retrievePayment's catch: the data of the input, and no sign of the error
InputDataReturned ==
    /\ op.name = "retrievePayment"
    /\ op.result = Return([data |-> DataOrEmpty(op.input)])

Refused == \E i \in 1..Len(http) : ~http[i].ok

\* C2 as stated: each request of an operation is sent at most once, and
\* after a response that is not OK the operation ends, with an error thrown
\* or an error result returned, without another request
C2_EndsWithError ==
    /\ SentOnceAndOver
    /\ Refused => Thrown \/ ErrorReturned

\* C2: each request of an operation is sent at most once, and after a
\* response that is not OK the operation ends without another request: it
\* throws, returns an error result or, in retrievePayment, returns the data
\* of its input
C2_NoRetry ==
    /\ SentOnceAndOver
    /\ Refused => Thrown \/ ErrorReturned \/ InputDataReturned

\* retrievePayment has ended after PayPal refused its API request
C2_Witness ==
    /\ op.name = "retrievePayment"
    /\ op.pc = "done"
    /\ Len(http) = 2
    /\ http[1].ok
    /\ ~http[2].ok

\* C3: the provider keeps no record of earlier calls: every initiatePayment
\* call is on its way to a POST /v2/checkout/orders of its own, whatever
\* orders exist, and one that has returned has sent it and got a new order,
\* the latest PayPal holds
C3_NoIdempotency ==
    op.name = "initiatePayment" =>
      /\ op.request = InitiateRequest(op.input)
      /\ op.pc = "done" =>
           /\ http # <<>>
           /\ http[1].ok => Len(http) = 2
      /\ Len(http) = 2 =>
           /\ http[2].method = "POST"
           /\ http[2].path = OrdersPath
           /\ http[2].body = InitiateRequest(op.input).body
      /\ (op.pc = "done" /\ op.result.kind = "return") =>
           /\ Len(http) = 2
           /\ http[2].ok
           /\ op.result.value.id = IdOf(Len(ppOrders))
           /\ ppOrders[Len(ppOrders)].value = http[2].body.value
           /\ ppOrders[Len(ppOrders)].currency_code = http[2].body.currency_code

\* the second of two initiatePayment calls with the same amount and currency
\* has returned, and PayPal holds two orders of that amount
C3_Witness ==
    /\ op.name = "initiatePayment"
    /\ op.pc = "done"
    /\ op.result.kind = "return"
    /\ op.result.value.id = IdOf(2)
    /\ Len(ppOrders) = 2
    /\ ppOrders[1].value = ppOrders[2].value
    /\ ppOrders[1].currency_code = ppOrders[2].currency_code

\* C4: in an operation the token request comes first, the API request comes
\* only after a token request of the same operation that succeeded, and it
\* carries the token that request returned
C4_TokenThenRequest ==
    /\ \A i \in RequestsOf("token") :
         /\ i = 1
         /\ http[i].method = "POST"
         /\ http[i].path = TokenPath
    /\ \A i \in RequestsOf("api") :
         /\ i = 2
         /\ http[1].kind = "token"
         /\ http[1].ok
         /\ http[i].bearer = http[1].token
         /\ http[i].bearer # NoToken
    /\ op.pc = "api" => Len(http) = 1 /\ http[1].kind = "token" /\ http[1].ok

\* an operation after the first has sent its API request with the token of
\* its own token request, the second PayPal has issued
C4_Witness ==
    /\ Len(http) = 2
    /\ http[2].kind = "api"
    /\ http[1].token = NextToken(NextToken(NoToken))
    /\ http[2].bearer = http[1].token
(***************************************************************************)
(* Properties of the single provider operations.  An operation ends in the *)
(* step that takes it to "done": the call itself when it makes no request, *)
(* the token request when PayPal refuses it, the API request otherwise.    *)
(***************************************************************************)
Ends(name) == op.pc # "done" /\ op'.pc = "done" /\ op'.name = name

\* the operation ending has had its API request answered OK
Answered2xx == Len(http') = 2 /\ http'[2].kind = "api" /\ http'[2].ok

\* the operation ending has been refused the token or the API request
RefusedNow == http' # <<>> /\ ~http'[Len(http')].ok

\* the order an id names, as PayPal holds it when the request arrives
OrderNamed(id) == ppOrders[OrderIndex(id)]

\* C11: authorizePayment without an order id throws INVALID_DATA and sends
\* nothing; with one it asks PayPal for the order and returns "authorized"
\* for APPROVED and COMPLETED, "canceled" for VOIDED and "pending" for every
\* other status, with the order id and the PayPal status in the data.
C11_AuthorizeMapping ==
    [][Ends("authorizePayment") =>
         LET id == MetaGet(op'.input.data, "id")
             result == op'.result
         IN  IF id \in {JsUndefined, JsNull, ""}
               THEN /\ result.kind = "throw"
                    /\ result.type = "INVALID_DATA"
                    /\ http' = <<>>
               ELSE /\ http' # <<>>
                    /\ Answered2xx =>
                         LET status == OrderNamed(id).status
                         IN  /\ http'[2].method = "GET"
                             /\ http'[2].path = OrderPath
                             /\ http'[2].target = id
                             /\ result.kind = "return"
                             /\ result.value.data = [id |-> id, paypal_status |-> status]
                             /\ status \in {"APPROVED", "COMPLETED"} =>
                                  result.value.status = "authorized"
                             /\ status = "VOIDED" => result.value.status = "canceled"
                             /\ status \notin {"APPROVED", "COMPLETED", "VOIDED"} =>
                                  result.value.status = "pending"
      ]_vars

\* authorizePayment has found its order voided
C11_Witness ==
    /\ op.name = "authorizePayment"
    /\ op.pc = "done"
    /\ op.result.kind = "return"
    /\ op.result.value.status = "canceled"
    /\ op.result.value.data.paypal_status = "VOIDED"

\* C12: getPaymentStatus without an order id returns "pending" and sends
\* nothing; with one it asks PayPal for the order and returns "captured" for
\* COMPLETED, "authorized" for APPROVED, "canceled" for VOIDED and "pending"
\* for every other status, known to the provider or not; when the token or
\* the API request is refused it returns "error" and does not throw.
C12_StatusMapping ==
    [][Ends("getPaymentStatus") =>
         LET id == MetaGet(op'.input.data, "id")
             result == op'.result
         IN  /\ result.kind = "return"
             /\ IF id \in {JsUndefined, JsNull, ""}
                  THEN result.value.status = "pending" /\ http' = <<>>
                  ELSE /\ http' # <<>>
                       /\ RefusedNow => result.value.status = "error"
                       /\ Answered2xx =>
                            LET status == OrderNamed(id).status
                            IN  /\ http'[2].method = "GET"
                                /\ http'[2].path = OrderPath
                                /\ http'[2].target = id
                                /\ status = "COMPLETED" => result.value.status = "captured"
                                /\ status = "APPROVED" => result.value.status = "authorized"
                                /\ status = "VOIDED" => result.value.status = "canceled"
                                /\ status \notin {"COMPLETED", "APPROVED", "VOIDED"} =>
                                     result.value.status = "pending"
      ]_vars

\* getPaymentStatus has answered "pending" for an order in a status the
\* provider does not name
C12_Witness ==
    /\ op.name = "getPaymentStatus"
    /\ op.pc = "done"
    /\ Len(http) = 2
    /\ http[2].ok
    /\ op.result.value.status = "pending"
    /\ ppOrders[OrderIndex(http[2].target)].status = "PENDING_APPROVAL"

\* C13: capturePayment without an order id throws INVALID_DATA and sends
\* nothing; with one it sends one POST /v2/checkout/orders/{id}/capture and,
\* when PayPal answers OK, returns captured = true with the order id, the
\* status of the response, and the id and currency code of the first capture
\* of the response (undefined when the response holds none); when the token
\* or the capture request is refused it throws and returns nothing.
C13_Capture ==
    [][Ends("capturePayment") =>
         LET id == MetaGet(op'.input.data, "id")
             result == op'.result
         IN  IF id \in {JsUndefined, JsNull, ""}
               THEN /\ result.kind = "throw"
                    /\ result.type = "INVALID_DATA"
                    /\ http' = <<>>
               ELSE /\ http' # <<>>
                    /\ Len(http') <= 2
                    /\ \A i \in 1..Len(http') :
                         http'[i].kind = "api" =>
                           /\ http'[i].method = "POST"
                           /\ http'[i].path = CapturePath
                           /\ http'[i].target = id
                    /\ RefusedNow => result.kind = "throw"
                    /\ result.kind = "return" => Answered2xx
                    /\ Answered2xx =>
                         LET response == http'[2].response
                             captures == response.captures
                         IN  /\ result.kind = "return"
                             /\ result.value.data.captured = TRUE
                             /\ result.value.data.id = id
                             /\ result.value.data.paypal_status = response.status
                             /\ result.value.data.capture_id =
                                  (IF captures = <<>> THEN JsUndefined ELSE captures[1].id)
                             /\ result.value.data.currency_code =
                                  (IF captures = <<>> THEN JsUndefined
                                   ELSE captures[1].currency_code)
      ]_vars

\* capturePayment has captured an approved order and returned its capture
C13_Witness ==
    /\ op.name = "capturePayment"
    /\ op.pc = "done"
    /\ op.result.kind = "return"
    /\ op.result.value.data.captured
    /\ op.result.value.data.capture_id = CaptureIdOf(1)
    /\ op.result.value.data.currency_code = "USD"
    /\ ppOrders[1].status = "COMPLETED"

\* C14: refundPayment without a capture id in its data throws INVALID_DATA
\* and sends nothing, not even the token request; with one, its API request
\* is a POST to /v2/payments/captures/{capture_id}/refund, and when PayPal
\* answers OK it returns the data of its input with the response under the
\* key refund.
C14_RefundNeedsCapture ==
    [][Ends("refundPayment") =>
         LET captureId == MetaGet(op'.input.data, "capture_id")
             result == op'.result
         IN  IF captureId \in {JsUndefined, JsNull, ""}
               THEN /\ result.kind = "throw"
                    /\ result.type = "INVALID_DATA"
                    /\ http' = <<>>
               ELSE /\ http' # <<>>
                    /\ \A i \in 1..Len(http') :
                         http'[i].kind = "api" =>
                           /\ http'[i].method = "POST"
                           /\ http'[i].path = RefundPath
                           /\ http'[i].target = captureId
                    /\ Answered2xx =>
                         LET given == op'.input.data.kv
                             data == result.value.data
                         IN  /\ result.kind = "return"
                             /\ DOMAIN data = DOMAIN given \cup {"refund"}
                             /\ data.refund = http'[2].response
                             /\ \A k \in DOMAIN given \ {"refund"} : data[k] = given[k]
      ]_vars

\* refundPayment has refunded the capture of the first order
C14_Witness ==
    /\ op.name = "refundPayment"
    /\ op.pc = "done"
    /\ op.result.kind = "return"
    /\ op.result.value.data.capture_id = CaptureIdOf(1)
    /\ op.result.value.data.refund.status = "COMPLETED"
    /\ Len(http) = 2
    /\ http[2].target = CaptureIdOf(1)

\* the decimal text of t thousandths to two fraction digits: the hundredths
\* nearest to t
TwoDecimals(t) ==
    CHOOSE v \in [whole : 0..(t \div 1000 + 1), digits : (0..9) \X (0..9)] :
        LET hundredths == 100 * v.whole + 10 * v.digits[1] + v.digits[2]
        IN  10 * hundredths - 5 <= t /\ t < 10 * hundredths + 5

\* the API request that refundPayment has just been answered, if any
RefundRequested ==
    /\ Ends("refundPayment")
    /\ Len(http') = 2
    /\ http'[2].kind = "api"

\* C15 as stated: a refund without an amount (undefined or null) is
\* requested without a body; a refund of a positive amount is requested with
\* a body that carries the amount to two decimals and the currency code of
\* the data, or USD when the data has none.
C15_RefundAmount ==
    [][RefundRequested =>
         LET amount == op'.input.amount
             currency == MetaGet(op'.input.data, "currency_code")
             body == http'[2].body
         IN  /\ amount.kind \in {"undefined", "null"} => body = NoBody
             /\ (amount.kind \notin {"undefined", "null"} /\ amount.t > 0) =>
                  /\ body.has
                  /\ body.value = TwoDecimals(amount.t)
                  /\ body.currency_code
                       = (IF currency \in {JsUndefined, JsNull, ""} THEN "USD" ELSE currency)
      ]_vars

\* What refundPayment does with the amount: the request has a body exactly
\* when the amount is a number, or an object whose text is a number, above
\* zero; every other amount (none, zero, an object with another text) is
\* requested without a body, which PayPal refunds in full.
RefundAmountAsCoded ==
    [][RefundRequested =>
         LET amount == op'.input.amount
             currency == MetaGet(op'.input.data, "currency_code")
             body == http'[2].body
         IN  IF amount.kind \in {"number", "bignumber"} /\ amount.t > 0
               THEN /\ body.has
                    /\ body.value = TwoDecimals(amount.t)
                    /\ body.currency_code
                         = (IF currency \in {JsUndefined, JsNull, ""} THEN "USD" ELSE currency)
               ELSE body = NoBody
      ]_vars

\* C16: cancelPayment and deletePayment send no request, return whatever
\* their input is and leave the orders at PayPal as they are: cancelPayment
\* returns the id of its data (undefined when there is none) with
\* cancelled = true, deletePayment returns the data of its input.
C16_CancelDeleteLocal ==
    [][(Ends("cancelPayment") \/ Ends("deletePayment")) =>
         LET given == op'.input.data
             id == IF given.has /\ "id" \in DOMAIN given.kv THEN given.kv.id ELSE JsUndefined
         IN  /\ http' = <<>>
             /\ ppOrders' = ppOrders
             /\ lastToken' = lastToken
             /\ op'.result.kind = "return"
             /\ op'.name = "cancelPayment" =>
                  op'.result.value.data = [id |-> id, cancelled |-> TRUE]
             /\ op'.name = "deletePayment" => op'.result.value.data = given
      ]_vars

\* cancelPayment has answered for an order that PayPal still holds as approved
C16_Witness ==
    /\ op.name = "cancelPayment"
    /\ op.pc = "done"
    /\ op.result.kind = "return"
    /\ op.result.value.data.cancelled
    /\ op.result.value.data.id \in OrderIds
    /\ OrderNamed(op.result.value.data.id).status = "APPROVED"
    /\ http = <<>>

\* C17: updatePayment, with or without an order id in its data, asks PayPal
\* for a new order of the amount and currency of its input; when PayPal
\* answers OK there is one more order, the result is the id and status of
\* that order, and every order there was before is as it was.
C17_UpdateCreatesOrder ==
    [][Ends("updatePayment") =>
         LET n == Len(ppOrders)
         IN  /\ http' # <<>>
             /\ \A i \in 1..Len(http') :
                  http'[i].kind = "api" =>
                    /\ http'[i].method = "POST"
                    /\ http'[i].path = OrdersPath
                    /\ http'[i].body.value = TwoDecimals(op'.input.amount.t)
                    /\ http'[i].body.currency_code = ToUpperCase(op'.input.currency_code)
             /\ \A i \in 1..n : i <= Len(ppOrders') /\ ppOrders'[i] = ppOrders[i]
             /\ IF Answered2xx
                  THEN /\ Len(ppOrders') = n + 1
                       /\ ppOrders'[n + 1].value = http'[2].body.value
                       /\ ppOrders'[n + 1].currency_code = http'[2].body.currency_code
                       /\ op'.result.kind = "return"
                       /\ op'.result.value.data
                            = [id |-> IdOf(n + 1), status |-> ppOrders'[n + 1].status]
                  ELSE /\ Len(ppOrders') = n
                       /\ op'.result.kind = "throw"
      ]_vars

\* updatePayment for a session of the approved first order has returned the
\* second order, and the first is still approved
C17_Witness ==
    /\ op.name = "updatePayment"
    /\ op.pc = "done"
    /\ MetaGet(op.input.data, "id") = IdOf(1)
    /\ op.result.kind = "return"
    /\ op.result.value.data.id = IdOf(2)
    /\ Len(ppOrders) = 2
    /\ ppOrders[1].status = "APPROVED"

\* C18: getWebhookActionAndData sends no request, changes nothing at PayPal
\* and returns: for CHECKOUT.ORDER.APPROVED "authorized" with the id of the
\* resource as session_id and the amount of its first purchase unit; for
\* PAYMENT.CAPTURE.COMPLETED "captured" with the related order id as
\* session_id and the amount of the capture; for PAYMENT.CAPTURE.REFUNDED,
\* any other event type and none "not_supported".  An amount that is not
\* there counts as 0.
C18_WebhookMapping ==
    [][Ends("getWebhookActionAndData") =>
         LET data == op'.input.data
             result == op'.result
             Amount(a) == IF a.has
                            THEN 1000 * a.value.whole + 100 * a.value.digits[1]
                                   + 10 * a.value.digits[2]
                            ELSE 0
         IN  /\ http' = <<>>
             /\ ppOrders' = ppOrders
             /\ result.kind = "return"
             /\ IF data.has /\ data.event_type = "CHECKOUT.ORDER.APPROVED"
                  THEN /\ result.value.action = "authorized"
                       /\ result.value.data.session_id = data.resource.id
                       /\ result.value.data.amount.t
                            = (IF data.resource.purchase_units = <<>> THEN 0
                               ELSE Amount(data.resource.purchase_units[1].amount))
                  ELSE IF data.has /\ data.event_type = "PAYMENT.CAPTURE.COMPLETED"
                  THEN /\ result.value.action = "captured"
                       /\ result.value.data.session_id = data.resource.order_id
                       /\ result.value.data.amount.t = Amount(data.resource.amount)
                  ELSE result.value = [action |-> "not_supported"]
      ]_vars

\* the handler has answered a capture event with the related order and the
\* amount of the capture
C18_Witness ==
    /\ op.name = "getWebhookActionAndData"
    /\ op.pc = "done"
    /\ op.result.kind = "return"
    /\ op.result.value.action = "captured"
    /\ op.result.value.data.session_id = "ORDER-1"
    /\ op.result.value.data.amount.t = 12510

\* C19: the order request of initiatePayment carries the amount of the input
\* as it is, to two fraction digits (a whole amount n as n.00, not n / 100),
\* and the currency code in upper case; when PayPal answers OK the result
\* is the id and the status of the order that this request made.
C19_InitiateAmount ==
    [][Ends("initiatePayment") =>
         LET n == Len(ppOrders)
             amount == op'.input.amount.t
             code == op'.input.currency_code
         IN  /\ http' # <<>>
             /\ \A i \in 1..Len(http') :
                  http'[i].kind = "api" =>
                    /\ http'[i].method = "POST"
                    /\ http'[i].path = OrdersPath
                    /\ Len(http'[i].body.value.digits) = 2
                    /\ http'[i].body.value = TwoDecimals(amount)
                    /\ amount % 1000 = 0 =>
                         http'[i].body.value = [whole |-> amount \div 1000, digits |-> <<0, 0>>]
                    /\ code = "usd" => http'[i].body.currency_code = "USD"
                    /\ code = "eur" => http'[i].body.currency_code = "EUR"
             /\ Answered2xx =>
                  /\ Len(ppOrders') = n + 1
                  /\ ppOrders'[n + 1].value = http'[2].body.value
                  /\ ppOrders'[n + 1].currency_code = http'[2].body.currency_code
                  /\ op'.result.kind = "return"
                  /\ op'.result.value.id = IdOf(n + 1)
                  /\ op'.result.value.data
                       = [id |-> IdOf(n + 1), status |-> ppOrders'[n + 1].status]
      ]_vars

\* initiatePayment of 10 usd has made the order of 10.00 USD and of 12.506
\* eur that of 12.51 EUR
C19_Witness ==
    /\ op.name = "initiatePayment"
    /\ op.pc = "done"
    /\ op.result.kind = "return"
    /\ op.input.amount = Number(12506)
    /\ Len(ppOrders) = 2
    /\ ppOrders[1].value = [whole |-> 10, digits |-> <<0, 0>>]
    /\ ppOrders[1].currency_code = "USD"
    /\ ppOrders[2].value = [whole |-> 12, digits |-> <<5, 1>>]
    /\ ppOrders[2].currency_code = "EUR"
    /\ op.result.value.id = IdOf(2)

\* an operation ends in this step because PayPal refused its token request
\* or its API request
EndsRefused == op.pc # "done" /\ op'.pc = "done" /\ RefusedNow

\* C21: an operation that PayPal refuses the token or the API request ends
\* so: initiatePayment, capturePayment, refundPayment and updatePayment throw
\* the error of the request; authorizePayment returns status "error" with
\* the order id; getPaymentStatus returns status "error"; retrievePayment
\* returns the data of its input, or an empty object when it has none.
C21_FailureReported ==
    [][EndsRefused =>
         LET name == op'.name
             given == op'.input.data
             result == op'.result
             refusal == http'[Len(http')]
         IN  /\ name \in {"initiatePayment", "capturePayment", "refundPayment",
                          "updatePayment", "authorizePayment", "getPaymentStatus",
                          "retrievePayment"}
             /\ name \in {"initiatePayment", "capturePayment", "refundPayment",
                          "updatePayment"} =>
                  /\ result.kind = "throw"
                  /\ result.type = "INVALID_DATA"
                  /\ result.message = (IF refusal.kind = "token"
                                         THEN "Failed to authenticate with PayPal"
                                         ELSE "PayPal API error")
             /\ name = "authorizePayment" =>
                  /\ result.kind = "return"
                  /\ result.value.status = "error"
                  /\ result.value.data.id = given.kv.id
             /\ name = "getPaymentStatus" =>
                  /\ result.kind = "return"
                  /\ result.value = [status |-> "error"]
             /\ name = "retrievePayment" =>
                  /\ result.kind = "return"
                  /\ result.value.data = (IF given.has THEN given.kv ELSE <<>>)
      ]_vars

\* authorizePayment for the first order has returned "error" after PayPal
\* refused the request for the order
C21_Witness ==
    /\ op.name = "authorizePayment"
    /\ op.pc = "done"
    /\ Len(http) = 2
    /\ http[1].ok
    /\ ~http[2].ok
    /\ op.result.kind = "return"
    /\ op.result.value.status = "error"
    /\ op.result.value.data.id = IdOf(1)

\* authorizePayment or getPaymentStatus ends in this step with the order
\* PayPal returned for the id of its data
AnsweredOrder ==
    /\ Ends("authorizePayment") \/ Ends("getPaymentStatus")
    /\ Answered2xx

\* the status the other of the two operations returns for the same input
\* and the same order as PayPal holds it in this step
StatusOfTheOther ==
    IF op'.name = "authorizePayment"
      THEN GetPaymentStatusResult(op'.input, http'[2].response).value.status
      ELSE AuthorizeResult(op'.input, http'[2].response).value.status

\* C22 as stated: for every status of the order, authorizePayment and
\* getPaymentStatus, called for the same order in the same state of PayPal,
\* return the same status.
C22_SameStatus ==
    [][AnsweredOrder => op'.result.value.status = StatusOfTheOther]_vars

\* C22: authorizePayment and getPaymentStatus, called for the same order in
\* the same state of PayPal, return the same status for every status of the
\* order but COMPLETED, for which authorizePayment returns "authorized" and
\* getPaymentStatus "captured".
C22_SameStatusButCompleted ==
    [][AnsweredOrder =>
         LET status == OrderNamed(MetaGet(op'.input.data, "id")).status
             mine == op'.result.value.status
         IN  /\ http'[2].response.status = status
             /\ IF status = "COMPLETED"
                  THEN /\ op'.name = "authorizePayment" =>
                            mine = "authorized" /\ StatusOfTheOther = "captured"
                       /\ op'.name = "getPaymentStatus" =>
                            mine = "captured" /\ StatusOfTheOther = "authorized"
                  ELSE mine = StatusOfTheOther
      ]_vars

\* authorizePayment has returned "authorized" for the completed first order
C22_Witness ==
    /\ op.name = "authorizePayment"
    /\ op.pc = "done"
    /\ Len(http) = 2
    /\ http[2].ok
    /\ ppOrders[1].status = "COMPLETED"
    /\ MetaGet(op.input.data, "id") = IdOf(1)
    /\ op.result.value.status = "authorized"
(***************************************************************************)
(* Properties of the collection-metadata widget.                           *)
(***************************************************************************)
WidgetKeys == {"description", "image_url"}

\* the values an update request of the widget is to write
Written(r) ==
    IF r.kind = "save"
      THEN Fields(OrNull(r.edited.description), OrNull(r.edited.image_url))
      ELSE Fields(JsNull, JsNull)

\* every key of metadata before, other than the widget's two, is in after with its value
OtherKeysKept(before, after) ==
    \A k \in (DOMAIN MetadataOrEmpty(before)) \ WidgetKeys :
        /\ after.has
        /\ k \in DOMAIN after.kv
        /\ after.kv[k] = before.kv[k]

\* C9: the update of a Save stores the edited description and image URL
\* (null for an empty one) and the update of a confirmed Delete stores null
\* for both; either leaves every other key of the collection's metadata with
\* its value; and when the update has succeeded the widget's saved values
\* are the ones written (the empty text standing for null).
C9_SaveDeleteWrites ==
    [][\A r \in InFlight :
         /\ ServerUpdates(r) =>
              /\ MetaGet(serverMetadata', "description") = Written(r).description
              /\ MetaGet(serverMetadata', "image_url") = Written(r).image_url
              /\ OtherKeysKept(serverMetadata, serverMetadata')
         /\ (SaveSettles(r, TRUE) \/ DeleteSettles(r, TRUE)) =>
              /\ OrNull(saved'.description) = MetaGet(r.metadata, "description")
              /\ OrNull(saved'.image_url) = MetaGet(r.metadata, "image_url")
              /\ Fields(OrNull(saved'.description), OrNull(saved'.image_url)) = Written(r)
      ]_vars

\* a Save has replaced the description and removed the image of a collection
\* that was loaded with an image and one more key
C9_Witness ==
    /\ inflight = EmptyBag
    /\ dataMetadata = Meta([description |-> "Sun", image_url |-> "img1", seo |-> "kw"])
    /\ serverMetadata = Meta([description |-> "Sun", image_url |-> JsNull, seo |-> "kw"])
    /\ saved = Fields("Sun", "")
    /\ ~ui.isDrawerOpen

\* the description and image URL the server stores for the collection, the
\* empty text standing for a value that is null or not there
StoredFields ==
    Fields(OrEmpty(MetaGet(serverMetadata, "description")),
           OrEmpty(MetaGet(serverMetadata, "image_url")))

\* C23 as stated: whenever no update request is in flight, the widget's
\* saved description and image URL are the ones the server stores in the
\* collection's metadata.
C23_SavedIsStored == inflight = EmptyBag => saved = StoredFields
(***************************************************************************)
(* Properties of the seed script.                                          *)
(***************************************************************************)
Events(kinds) == {i \in 1..Len(seedLog) : seedLog[i].event \in kinds}

\* a call is the first event or follows the completion of the call before
\* it, a step earlier in the script; a call ends only after it was made
InSequence ==
    /\ \A i \in Events({"call", "threw"}) :
         i > 1 => /\ seedLog[i - 1].event = "done"
                  /\ seedLog[i - 1].step < seedLog[i].step
    /\ \A i \in Events({"done", "failed"}) :
         /\ i > 1
         /\ seedLog[i - 1].event = "call"
         /\ seedLog[i - 1].step = seedLog[i].step

\* a call that takes the id of an entity comes after a completed call that
\* created or fetched the entity, and takes the id that call returned
AfterItsEntities ==
    \A i \in Events({"call"}) :
      \A n \in SeedSteps[seedLog[i].step].uses :
        \E j \in Events({"done"}) :
          /\ j < i
          /\ SeedSteps[seedLog[j].step].binds = n
          /\ seedLog[j].refs \subseteq seedLog[i].refs
          /\ n \in Dereferenced(SeedSteps[seedLog[i].step]) => seedLog[j].refs # {}

\* a failure is the last thing the script does
FailureStops ==
    \A i \in Events({"failed", "threw"}) : i = Len(seedLog) /\ seedStatus = "failed"

\* what the completed calls made is in the framework's data
NothingUndone ==
    \A i \in Events({"done"}) :
        SeedSteps[seedLog[i].step].makes # "" =>
            SeedSteps[seedLog[i].step].makes \in seedWorld.made

\* C10: the calls of the seed script run one after the other, each after the
\* one before it has completed; a call that refers to an entity runs after
\* the call that created or fetched it; after a failure no later call is
\* made, and what the earlier calls made stays
C10_SeedSequential ==
    /\ InSequence
    /\ AfterItsEntities
    /\ FailureStops
    /\ NothingUndone

\* the script has failed in createShippingOptionsWorkflow, after it created
\* the sales channel and the shipping profile the database lacked
C10_Witness ==
    /\ seedStatus = "failed"
    /\ SeedSteps[seedPc].name = "createShippingOptionsWorkflow"
    /\ seedLog[Len(seedLog)].event = "failed"
    /\ {"sc_new", "sp_new", "reg_new", "fuset_new"} \subseteq seedWorld.made

\* the inventory items the query returned
ItemsReturned ==
    {seedEnv["inventoryItems"][k] : k \in 1..Len(seedEnv["inventoryItems"])}

\* C20: the inventory levels the script creates are one for each inventory
\* item the query returned and none besides, each at the stock location the
\* script created, each with a whole stocked quantity from 5 to 25.
C20_InventoryLevels ==
    seedLevels # <<>> =>
        /\ Len(seedLevels) = seedWorld.items
        /\ Cardinality(ItemsReturned) = seedWorld.items
        /\ \A id \in ItemsReturned :
             Cardinality({i \in 1..Len(seedLevels) :
                            seedLevels[i].inventory_item_id = id}) = 1
        /\ \A i \in 1..Len(seedLevels) :
             /\ seedLevels[i].inventory_item_id \in ItemsReturned
             /\ seedLevels[i].location_id = "sloc_new"
             /\ "sloc_new" \in seedWorld.made
             /\ seedLevels[i].stocked_quantity \in 5..25

\* the script has finished with levels for two items, one of 5 and one of 25
C20_Witness ==
    /\ seedStatus = "finished"
    /\ Len(seedLevels) = 2
    /\ seedLevels[1].stocked_quantity = 5
    /\ seedLevels[2].stocked_quantity = 25
    /\ seedLevels[1].inventory_item_id # seedLevels[2].inventory_item_id
    /\ "inventory levels" \in seedWorld.made
=============================================================================
